---- MODULE Spec2Model ----
(***************************************************************************)
(* A model of the NFC tag-reader engine of the qr-scanner repository:     *)
(* the PN532 frame codec (pn532_controller.py), the multi-tag detector    *)
(* (multi_tag_handler.py) and the page <-> tag mapping store with its     *)
(* learning mode (page_navigation_controller.py, pn532_controller.py).    *)
(*                                                                         *)
(* Bytes are integers 0..255; Python lists and bytes objects are          *)
(* sequences; a Python dict that is iterated is the sequence of its      *)
(* <<key, value>> items in insertion order, one that is only looked up is *)
(* a function on its keys.  Python's None is the tagged value None.       *)
(***************************************************************************)
EXTENDS Integers, Sequences, FiniteSets, TLC

VARIABLES
    \* ---- frame codec (PN532Controller.build_command / read_response)
    data,        \* the command bytes handed to build_command
    frame,       \* the bytes build_command returned
    rx,          \* bytes waiting in the serial channel (serial_conn's input)
    wire,        \* the bytes the channel delivered for this exchange (history)
    response,    \* what read_response returned
    cpc,         \* position of the exchange: "idle", "init", "built", "delivered", "done"
    mode,        \* how the delivered bytes were produced (history)
    rerr,        \* which serial read raised during read_response (history)
    \* ---- multi-tag detector (MultiTagHandler.detect_multiple_tags)
    drecs,       \* the target records the device encoded in its response (history)
    dresp,       \* what read_response returned to the detector
    dtimes,      \* the clock readings taken while the records are parsed
    dwerr,       \* whether the serial write of the command raised (history)
    tags,        \* the list detect_multiple_tags returned (detect_tag: the tag_info
                 \* it returned as a list of one, the empty list for None)
    dpc,         \* "idle", "ready", "done"
    \* ---- controller state (both controllers)
    ctl,                    \* "pagenav" (PageNavigationController) or "pn532" (PN532Controller)
    total_pages,            \* self.total_pages
    is_running,             \* self.is_running
    page_mappings,          \* self.page_mappings: dict page -> uid
    reverse_mappings,       \* self.reverse_mappings: dict uid -> page
    learning_mode,          \* self.learning_mode
    current_learning_page,  \* self.current_learning_page
    last_tag_id,            \* self.last_tag_id / self.last_tag_uid
    elapsed,                \* time.time() - self.last_tag_time, in units of 0.5 s,
                            \* kept up to the cooldown (a longer wait acts the same)
    file,                   \* page_mappings.json: NoFile or the stored record
    lpc,                    \* the monitoring loop: "new", "loop", "exited"
    outcome,                \* what the last handler did (history)
    \* ---- detections against the clock (history)
    since,       \* per uid: time since the last detection of it that sent an event,
                 \* in units of 0.5 s, kept up to the cooldown
    seen,        \* the last detection: its uid, since[uid] before it, whether the
                 \* uid was mapped, the page of the event sent (0: none)
    fed,         \* the uids of the detections accepted in learning mode since the
                 \* learn command, emptied by a detection outside learning mode
    \* ---- multi-tag arbitration (MultiTagHandler)
    strategy,    \* self.tag_priority_strategy
    polled,      \* the tags handed to process_multiple_tags (history)
    winner,      \* what select_priority_tag returned for them (history)
    \* ---- one session: the main thread's loop and the console thread
    kpc,         \* the console thread: "none", "input", "ended"
    xch,         \* the contexts that wrote a command and await its response
    chan,        \* the channel: "closed", "open", "dead" (unplugged), "released"
    shut,        \* the first exchange that failed on a dead channel ("fail"), the
                 \* flushes and the releases of the shutdown, in order (history)
    wrote,       \* the contexts that wrote learning_mode, current_learning_page
                 \* or the mappings (history)
    late,        \* detection cycles begun since is_running was cleared (history)
    \* ---- the two threads statement by statement
    kop,         \* the console thread's command in progress: its name, arguments,
                 \* the statement it is at ("done": returned) and its local tag_id
    lop,         \* the poll loop's process_nfc_tag / process_tag call in progress:
                 \* the tag, its content, the statement it is at and its locals
    hist,        \* the controller's fields when the two calls began (history)
    \* ---- construction
    args,        \* the arguments main() passes to the constructor
    conf,        \* self.port, self.baudrate and self.udp_port
    \* ---- the tag writer (PN532TagWriter.batch_write_tags) and the tags
    wpc,            \* "idle", "write" (first attempt of a page), "ask" (the retry
                    \* question), "rewrite" (second attempt), "done" (returned)
    wpage,          \* the loop variable page
    success_count,  \* success_count
    failed_pages,   \* failed_pages
    tries,          \* per page: the calls of write_page_tag for it (history)
    asked,          \* per page: the answer to the retry question, "" if not asked
    wcall,          \* the last write_page_tag call: whether it called
                    \* write_tag_data, the exchanges that call issued, the status
                    \* the device answered, the line, the result (history)
    tagmem          \* per tag the device wrote: the page it was written for and
                    \* the 16 bytes of its block 4

codecVars  == <<data, frame, rx, wire, response, cpc, mode, rerr>>
detectVars == <<drecs, dresp, dtimes, dwerr, tags, dpc>>
storeVars  == <<ctl, total_pages, is_running, page_mappings, reverse_mappings,
                learning_mode, current_learning_page, last_tag_id, elapsed,
                file, lpc, outcome>>
watchVars  == <<since, seen, fed>>
multiVars  == <<strategy, polled, winner>>
sessVars   == <<kpc, xch, chan, shut, wrote, late>>
raceVars   == <<kop, lop, hist>>
ctorVars   == <<args, conf>>
writerVars == <<wpc, wpage, success_count, failed_pages, tries, asked, wcall, tagmem>>
vars == <<codecVars, detectVars, storeVars, watchVars, multiVars, sessVars, raceVars,
          ctorVars, writerVars>>

-----------------------------------------------------------------------------
(* Bounds of the model *)

\* longest command payload handed to build_command
MaxLen == 3
\* most bytes that follow a frame in the channel (the head of the next frame)
MaxTrail == 1
\* longest body of an arbitrary byte stream, after its 6 header bytes
MaxBody == 4
\* longest UID of a target record
MaxUid == 2
\* largest total_pages a session is constructed with
MaxPages == 2

-----------------------------------------------------------------------------
(* Python helpers *)

\* seq[:n]
Take(s, n) == SubSeq(s, 1, IF n < Len(s) THEN n ELSE Len(s))

\* seq[n:]
Drop(s, n) == SubSeq(s, n + 1, Len(s))

\* sum(seq)
RECURSIVE Sum(_)
Sum(s) == IF s = <<>> THEN 0 ELSE Head(s) + Sum(Tail(s))

\* ~x on Python's unbounded integers
BitNot(x) == -x - 1

\* x & 0xFF
And0xFF(x) == x % 256

\* all sequences over S of length lo..hi
SeqsOf(S, lo, hi) == UNION {[1..n -> S] : n \in lo..hi}

None == [tag |-> "None", val |-> <<>>]
Some(v) == [tag |-> "list", val |-> v]
Raised == [tag |-> "raise", val |-> <<>>]

-----------------------------------------------------------------------------
(* Frame codec *)

PN532_PREAMBLE == 0
PN532_STARTCODE1 == 0
PN532_STARTCODE2 == 255
PN532_POSTAMBLE == 0
HostToPN532 == 212

\* build_command with the length checksum taken as the one's complement
build_command_onescomp(d) ==
    LET length == Len(d) + 1
        checksum == And0xFF(BitNot(length))
        data_checksum == And0xFF(BitNot(HostToPN532 + Sum(d)) + 1)
    IN  <<PN532_PREAMBLE, PN532_STARTCODE1, PN532_STARTCODE2, length, checksum,
          HostToPN532>> \o d \o <<data_checksum, PN532_POSTAMBLE>>

\* PN532Controller.build_command
build_command(d) ==
    LET length == Len(d) + 1
        checksum == And0xFF(BitNot(length) + 1)
        data_checksum == And0xFF(BitNot(HostToPN532 + Sum(d)) + 1)
    IN  <<PN532_PREAMBLE, PN532_STARTCODE1, PN532_STARTCODE2, length, checksum,
          HostToPN532>> \o d \o <<data_checksum, PN532_POSTAMBLE>>

\* The body of read_response's try block on channel contents s.  err says
\* which serial read raises ("none", "read1", "read2").  The result is the
\* returned value, or Raised where an exception leaves the block, with the
\* bytes left in the channel.
read_response_try(s, err) ==
    LET header == Take(s, 6)
        after1 == Drop(s, 6)
    IN  IF err = "read1" THEN [ret |-> Raised, rest |-> s]
        ELSE IF Len(header) < 6 THEN [ret |-> None, rest |-> after1]
        ELSE IF SubSeq(header, 1, 3) # <<0, 0, 255>> THEN [ret |-> None, rest |-> after1]
        ELSE LET length == header[4] IN
             IF length = 0 THEN [ret |-> None, rest |-> after1]
             ELSE IF err = "read2" THEN [ret |-> Raised, rest |-> after1]
             ELSE LET d == Take(after1, length + 2)
                      after2 == Drop(after1, length + 2)
                  IN  IF Len(d) < length + 2 THEN [ret |-> None, rest |-> after2]
                      ELSE LET checksum == And0xFF(Sum(SubSeq(d, 1, Len(d) - 2))) IN
                           IF checksum # And0xFF(256 - d[Len(d) - 1])
                           THEN [ret |-> None, rest |-> after2]
                           ELSE [ret |-> Some(SubSeq(d, 2, Len(d) - 2)), rest |-> after2]

\* PN532Controller.read_response: the try block, and None for any exception
read_response(s, err) ==
    LET r == read_response_try(s, err)
    IN  IF r.ret.tag = "raise" THEN [ret |-> None, rest |-> r.rest] ELSE r

\* command bytes: 0x00, 0x4A (InListPassiveTarget), 0xFF
PayloadBytes == {0, 74, 255}
Payloads == SeqsOf(PayloadBytes, 1, MaxLen)
\* bytes that may follow a frame in the channel
Trailing == SeqsOf({0}, 0, MaxTrail)
\* values a corrupted byte may take
FlipBytes == {0, 1, 2, 213, 255}
\* arbitrary channel contents: a 6-byte header (good or bad magic, a length
\* byte, a matching or wrong length checksum, the 0xD5 direction byte)
\* followed by a body, or a header cut short
RawHeaders ==
    UNION {{<<0, 0, m, len, lcs, 213>> : m \in {0, 255}, lcs \in {1, And0xFF(256 - len)}} :
              len \in 0..2}
RawBodies == SeqsOf({0, 1, 43, 255}, 0, MaxBody)
RawStreams ==
    {h \o b : h \in RawHeaders, b \in RawBodies}
        \cup {Take(h, n) : h \in RawHeaders, n \in 0..5}

DetectIdle ==
    /\ drecs = <<>>
    /\ dresp = None
    /\ dtimes = <<>>
    /\ dwerr = FALSE
    /\ tags = <<>>
    /\ dpc = "idle"

CodecIdle ==
    /\ data = <<>>
    /\ frame = <<>>
    /\ rx = <<>>
    /\ wire = <<>>
    /\ response = None
    /\ cpc = "idle"
    /\ mode = "none"
    /\ rerr = "none"

\* a caller hands command bytes to build_command
BuildCommand ==
    /\ cpc = "init"
    /\ data # <<>>
    /\ frame' = build_command(data)
    /\ cpc' = "built"
    /\ UNCHANGED <<data, rx, wire, response, mode, rerr, detectVars, storeVars,
                   watchVars, sessVars, multiVars, raceVars, ctorVars, writerVars>>

Deliver(s, m) ==
    /\ rx' = s
    /\ wire' = s
    /\ mode' = m
    /\ cpc' = "delivered"
    /\ UNCHANGED <<data, frame, response, rerr, detectVars, storeVars,
                   watchVars, sessVars, multiVars, raceVars, ctorVars, writerVars>>

\* the channel returns the frame as built, possibly followed by further bytes
DeliverFrame == cpc = "built" /\ \E t \in Trailing : Deliver(frame \o t, "loop")

\* the channel returns the frame with one byte changed
DeliverCorrupted ==
    \E i \in 1..Len(frame), b \in FlipBytes, t \in Trailing :
        /\ cpc = "built"
        /\ b # frame[i]
        /\ Deliver([frame EXCEPT ![i] = b] \o t, "flip")

\* the channel returns only a proper prefix of the frame before the timeout
DeliverTruncated ==
    cpc = "built" /\ \E n \in 0..(Len(frame) - 1) : Deliver(Take(frame, n), "trunc")

\* read_response is called with no command of this exchange built: the
\* channel holds arbitrary bytes
DeliverRaw ==
    cpc = "init" /\ data = <<>> /\ \E s \in RawStreams : Deliver(s, "raw")

\* read_response runs on the channel contents
ReadResponse ==
    /\ cpc = "delivered"
    /\ \E err \in {"none", "read1", "read2"} :
          LET r == read_response(rx, err)
          IN  /\ response' = r.ret
              /\ rx' = r.rest
              /\ rerr' = err
    /\ cpc' = "done"
    /\ UNCHANGED <<data, frame, wire, mode, detectVars, storeVars, watchVars, sessVars, multiVars,
            raceVars, ctorVars, writerVars>>

-----------------------------------------------------------------------------
(* Multi-tag detector *)

\* f'{b:02x}': the two hex digits of a byte, as digit values 0..15
hex02(b) == <<b \div 16, b % 16>>

\* ''.join([f'{b:02x}' for b in uid])
RECURSIVE uid_hex_of(_)
uid_hex_of(uid) == IF uid = <<>> THEN <<>> ELSE hex02(Head(uid)) \o uid_hex_of(Tail(uid))

\* MultiTagHandler.estimate_signal_strength
estimate_signal_strength(sens_res) ==
    IF sens_res > 64 THEN "strong" ELSE IF sens_res > 32 THEN "medium" ELSE "weak"

\* response[i] of a Python list (0-based)
At(resp, i) == resp[i + 1]

\* the record loop with the uid bound check left out: the slice is cut short
RECURSIVE parse_records_nobound(_, _, _, _, _)
parse_records_nobound(resp, offset, i, num_tags, times) ==
    IF i >= num_tags \/ offset >= Len(resp) THEN <<>>
    ELSE IF offset + 4 >= Len(resp) THEN <<>>
    ELSE LET uid_length == At(resp, offset + 4)
             uid == SubSeq(Take(resp, offset + 5 + uid_length), offset + 6,
                           Len(Take(resp, offset + 5 + uid_length)))
             tag_info ==
                 [tag_number |-> At(resp, offset),
                  sens_res |-> At(resp, offset + 1) * 256 + At(resp, offset + 2),
                  sel_res |-> At(resp, offset + 3),
                  uid |-> uid,
                  uid_hex |-> uid_hex_of(uid),
                  detection_time |-> times[i + 1],
                  signal_strength |->
                      estimate_signal_strength(
                          At(resp, offset + 1) * 256 + At(resp, offset + 2))]
         IN  <<tag_info>> \o
                 parse_records_nobound(resp, offset + 5 + uid_length, i + 1, num_tags, times)

\* the record loop advancing by the five fixed bytes only
RECURSIVE parse_records_fixedstep(_, _, _, _, _)
parse_records_fixedstep(resp, offset, i, num_tags, times) ==
    IF i >= num_tags \/ offset >= Len(resp) THEN <<>>
    ELSE IF offset + 4 >= Len(resp) THEN <<>>
    ELSE LET uid_length == At(resp, offset + 4) IN
         IF offset + 5 + uid_length > Len(resp) THEN <<>>
         ELSE LET uid == SubSeq(resp, offset + 6, offset + 5 + uid_length)
                  sens_res == At(resp, offset + 1) * 256 + At(resp, offset + 2)
                  tag_info ==
                      [tag_number |-> At(resp, offset),
                       sens_res |-> sens_res,
                       sel_res |-> At(resp, offset + 3),
                       uid |-> uid,
                       uid_hex |-> uid_hex_of(uid),
                       detection_time |-> times[i + 1],
                       signal_strength |-> estimate_signal_strength(sens_res)]
              IN  <<tag_info>> \o
                      parse_records_fixedstep(resp, offset + 5, i + 1, num_tags, times)

\* the for loop of detect_multiple_tags from record i at `offset`: it stops
\* at the end of the response, at an IndexError in a record's five fixed
\* bytes, and at a uid that would overrun the response
RECURSIVE parse_records(_, _, _, _, _)
parse_records(resp, offset, i, num_tags, times) ==
    IF i >= num_tags \/ offset >= Len(resp) THEN <<>>
    ELSE IF offset + 4 >= Len(resp) THEN <<>>
    ELSE LET uid_length == At(resp, offset + 4) IN
         IF offset + 5 + uid_length > Len(resp) THEN <<>>
         ELSE LET uid == SubSeq(resp, offset + 6, offset + 5 + uid_length)
                  sens_res == At(resp, offset + 1) * 256 + At(resp, offset + 2)
                  tag_info ==
                      [tag_number |-> At(resp, offset),
                       sens_res |-> sens_res,
                       sel_res |-> At(resp, offset + 3),
                       uid |-> uid,
                       uid_hex |-> uid_hex_of(uid),
                       detection_time |-> times[i + 1],
                       signal_strength |-> estimate_signal_strength(sens_res)]
              IN  <<tag_info>> \o
                      parse_records(resp, offset + 5 + uid_length, i + 1, num_tags, times)

\* MultiTagHandler.detect_multiple_tags: werr says the serial write raised,
\* r is what read_response returned, times the clock readings per record
detect_multiple_tags(werr, r, times) ==
    IF werr THEN <<>>
    ELSE IF r.tag = "None" \/ Len(r.val) < 1 THEN <<>>
    ELSE LET num_tags == At(r.val, 0)
         IN  IF num_tags = 0 THEN <<>>
             ELSE parse_records(r.val, 1, 0, num_tags, times)

\* the bytes of one target record as the device lays them out:
\* number, sens-res (2 bytes), sel-res, uid length, uid
RecordBytes(rec) ==
    <<rec.tag_number, rec.sens_res \div 256, rec.sens_res % 256, rec.sel_res, Len(rec.uid)>>
        \o rec.uid

RECURSIVE RecordsBytes(_)
RecordsBytes(recs) ==
    IF recs = <<>> THEN <<>> ELSE RecordBytes(Head(recs)) \o RecordsBytes(Tail(recs))

\* target records: sens-res 0x0044 or 0x0020, sel-res 0x08, a uid of 1..MaxUid bytes
TargetRecords(n) ==
    {[tag_number |-> n, sens_res |-> sr, sel_res |-> 8, uid |-> u] :
        sr \in {68, 32}, u \in SeqsOf({4, 161}, 1, MaxUid)}

\* no, one or two records, numbered in order (the PN532 lists at most two
\* targets)
RecordLists ==
    {<<>>} \cup {<<a>> : a \in TargetRecords(1)}
        \cup {<<a, b>> : a \in TargetRecords(1), b \in TargetRecords(2)}

\* the device answers a detection command: a target count, the records, and
\* the response may end anywhere (also inside a record); or nothing usable
DeviceResponds ==
    /\ dpc = "idle"
    /\ \E recs \in RecordLists, t \in {<<0, 0>>, <<0, 1>>}, usable \in BOOLEAN :
          LET full == <<Len(recs)>> \o RecordsBytes(recs)
          IN  /\ drecs' = recs
              /\ dtimes' = t
              /\ IF usable
                 THEN \E n \in 0..Len(full) : dresp' = Some(Take(full, n))
                 ELSE dresp' = None
    /\ dpc' = "ready"
    /\ UNCHANGED <<dwerr, tags, codecVars, storeVars, watchVars, sessVars, multiVars, raceVars,
            ctorVars, writerVars>>

\* one call of detect_multiple_tags
DetectMultipleTags ==
    /\ dpc = "ready"
    /\ \E werr \in BOOLEAN :
          /\ dwerr' = werr
          /\ tags' = detect_multiple_tags(werr, dresp, dtimes)
    /\ dpc' = "done"
    /\ UNCHANGED <<drecs, dresp, dtimes, codecVars, storeVars, watchVars, sessVars, multiVars,
            raceVars, ctorVars, writerVars>>

\* PN532Controller.detect_tag on what read_response returned: the tag_info as
\* a list of one, <<>> for None.  response[6:6+uid_length] is a slice: it is
\* cut at the end of the response.
detect_tag(werr, r) ==
    IF werr THEN <<>>
    ELSE IF r.tag = "None" \/ r.val = <<>> \/ Len(r.val) < 7 THEN <<>>
    ELSE LET num_tags == At(r.val, 0) IN
         IF num_tags > 0
         THEN LET uid_length == At(r.val, 5)
                  uid == SubSeq(Take(r.val, 6 + uid_length), 7,
                                Len(Take(r.val, 6 + uid_length)))
              IN  <<[tag_number |-> At(r.val, 1),
                     sens_res |-> At(r.val, 2) * 256 + At(r.val, 3),
                     sel_res |-> At(r.val, 4),
                     uid |-> uid,
                     uid_hex |-> uid_hex_of(uid)]>>
         ELSE <<>>

\* the device answers detect_tag's command: a target count (0 or 1), one
\* record, and the response may end anywhere; or nothing usable
DeviceAnswers ==
    /\ dpc = "idle"
    /\ \E rec \in TargetRecords(1), count \in {0, 1}, usable \in BOOLEAN :
          LET full == <<count>> \o RecordBytes(rec)
          IN  /\ drecs' = <<rec>>
              /\ IF usable
                 THEN \E n \in 0..Len(full) : dresp' = Some(Take(full, n))
                 ELSE dresp' = None
    /\ dpc' = "ready"
    /\ UNCHANGED <<dtimes, dwerr, tags, codecVars, storeVars, watchVars, sessVars, multiVars,
            raceVars, ctorVars, writerVars>>

\* one call of detect_tag
DetectTag ==
    /\ dpc = "ready"
    /\ \E werr \in BOOLEAN :
          /\ dwerr' = werr
          /\ tags' = detect_tag(werr, dresp)
    /\ dpc' = "done"
    /\ UNCHANGED <<drecs, dresp, dtimes, codecVars, storeVars, watchVars, sessVars, multiVars,
            raceVars, ctorVars, writerVars>>

-----------------------------------------------------------------------------
(* Python dict, str(int) and int(str) *)

DictHas(d, k) == \E i \in 1..Len(d) : d[i][1] = k

DictGet(d, k) == d[CHOOSE i \in 1..Len(d) : d[i][1] = k][2]

\* d[k] = v: an existing key keeps its position, a new key goes last
DictPut(d, k, v) ==
    IF DictHas(d, k)
    THEN [i \in 1..Len(d) |-> IF d[i][1] = k THEN <<k, v>> ELSE d[i]]
    ELSE Append(d, <<k, v>>)

DictDel(d, k) ==
    LET keep(e) == e[1] # k IN SelectSeq(d, keep)

\* a dict that is never iterated (reverse_mappings): a function on its keys
EmptyMap == [k \in {} |-> 0]

MapPut(m, k, v) == [x \in (DOMAIN m) \cup {k} |-> IF x = k THEN v ELSE m[x]]

MapDel(m, k) == [x \in (DOMAIN m) \ {k} |-> m[x]]

\* {v: k for k, v in d.items()}: a later item overwrites an earlier one
RECURSIVE MapOfValues(_)
MapOfValues(d) ==
    IF d = <<>> THEN EmptyMap
    ELSE LET n == Len(d) IN MapPut(MapOfValues(SubSeq(d, 1, n - 1)), d[n][2], d[n][1])

\* the dict a comprehension builds from items, inserted in order
RECURSIVE DictFromItems(_)
DictFromItems(items) ==
    IF items = <<>> THEN <<>>
    ELSE LET n == Len(items)
         IN  DictPut(DictFromItems(SubSeq(items, 1, n - 1)), items[n][1], items[n][2])

\* str(n) for n >= 0, as the sequence of its decimal digits
RECURSIVE str(_)
str(n) == IF n < 10 THEN <<n>> ELSE str(n \div 10) \o <<n % 10>>

\* whether int(s) succeeds: a non-empty string of characters 0..9
isdigits(s) == Len(s) > 0 /\ \A i \in 1..Len(s) : s[i] \in 0..9

\* int(s) of a string of digits
RECURSIVE int(_)
int(s) == IF Len(s) = 1 THEN s[1] ELSE 10 * int(SubSeq(s, 1, Len(s) - 1)) + s[Len(s)]

-----------------------------------------------------------------------------
(* Controller state and mapping store *)

\* tag identifiers (hex UID strings)
Uids == {"04a1", "04b2"}
\* self.last_tag_id = None
NoTag == "None"
\* tag_cooldown, 0.5 s, in units of 0.5 s
TagCooldown == 1

\* the total_pages argument a process is started with
SessionPages == {MaxPages - 1, MaxPages}

NoFile == [exists |-> FALSE, page_mappings |-> <<>>, total_pages |-> 0]

\* the controller object as a record, with its UDP socket (sendto returns:
\* "ok", or raises: "fail") and what the running handler did: the page of
\* the navigation event it sent (0: none), the calls of sendto it made and
\* whether an exception left it
Self ==
    [kind |-> ctl, total |-> total_pages, pm |-> page_mappings, rev |-> reverse_mappings,
     lm |-> learning_mode, clp |-> current_learning_page, last_id |-> last_tag_id,
     elapsed |-> elapsed, file |-> file, emitted |-> 0, raised |-> FALSE,
     sock |-> "ok", attempts |-> 0]

\* __init__ of either controller: empty mappings, not learning
Constructed(kind, total, f) ==
    [kind |-> kind, total |-> total, pm |-> <<>>, rev |-> EmptyMap, lm |-> FALSE, clp |-> 1,
     last_id |-> NoTag, elapsed |-> TagCooldown, file |-> f, emitted |-> 0,
     raised |-> FALSE, sock |-> "ok", attempts |-> 0]

\* PageNavigationController.save_mappings: json.dump writes the integer
\* page keys as strings; created_time is written and never read back
PageNav_save_mappings(c) ==
    [c EXCEPT !.file =
        [exists |-> TRUE,
         page_mappings |-> [i \in 1..Len(c.pm) |-> <<str(c.pm[i][1]), c.pm[i][2]>>],
         total_pages |-> c.total]]

\* a page_mappings.json that json.load cannot parse
Unparsable == [exists |-> TRUE, text |-> "{"]

\* load_mappings with the dicts assigned only after both were built
PageNav_load_mappings_whole(c) ==
    IF ~c.file.exists \/ c.file = Unparsable THEN c
    ELSE LET raw == c.file.page_mappings
         IN  IF \E i \in 1..Len(raw) : ~isdigits(raw[i][1]) THEN c
             ELSE LET pm == DictFromItems([i \in 1..Len(raw) |-> <<int(raw[i][1]), raw[i][2]>>])
                      rev == MapOfValues(pm)
                  IN  [c EXCEPT !.pm = pm, !.rev = rev]

\* PageNavigationController.load_mappings: FileNotFoundError and any other
\* exception (json.load, int(k)) are caught; self.page_mappings is assigned
\* the stored dict before its keys are converted
PageNav_load_mappings(c) ==
    IF ~c.file.exists \/ c.file = Unparsable THEN c
    ELSE LET raw == c.file.page_mappings
             c1 == [c EXCEPT !.pm = raw]
         IN  IF \E i \in 1..Len(raw) : ~isdigits(raw[i][1]) THEN c1
             ELSE LET pm == DictFromItems([i \in 1..Len(raw) |-> <<int(raw[i][1]), raw[i][2]>>])
                      rev == MapOfValues(pm)
                  IN  [c EXCEPT !.pm = pm, !.rev = rev]

\* add_page_mapping without the range check
PageNav_add_page_mapping_nocheck(c, page_number, tag_id) ==
    PageNav_save_mappings([c EXCEPT !.pm = DictPut(@, page_number, tag_id),
                                    !.rev = MapPut(@, tag_id, page_number)])

\* PageNavigationController.add_page_mapping
PageNav_add_page_mapping(c, page_number, tag_id) ==
    IF 1 <= page_number /\ page_number <= c.total
    THEN PageNav_save_mappings([c EXCEPT !.pm = DictPut(@, page_number, tag_id),
                                         !.rev = MapPut(@, tag_id, page_number)])
    ELSE c

\* PN532Controller.add_page_mapping
PN532_add_page_mapping(c, page_number, uid_hex) ==
    IF 1 <= page_number /\ page_number <= c.total
    THEN [c EXCEPT !.pm = DictPut(@, page_number, uid_hex),
                   !.rev = MapPut(@, uid_hex, page_number)]
    ELSE c

\* PageNavigationController.remove_page_mapping: del of a missing key raises
\* KeyError after the forward entry is gone and before the save
PageNav_remove_page_mapping(c, page_number) ==
    IF DictHas(c.pm, page_number)
    THEN LET tag_id == DictGet(c.pm, page_number)
             c1 == [c EXCEPT !.pm = DictDel(@, page_number)]
         IN  IF tag_id \in DOMAIN c1.rev
             THEN PageNav_save_mappings([c1 EXCEPT !.rev = MapDel(@, tag_id)])
             ELSE [c1 EXCEPT !.raised = TRUE]
    ELSE c

\* PageNavigationController.start_learning_mode
PageNav_start_learning_mode(c) == [c EXCEPT !.lm = TRUE, !.clp = 1]

\* start_learning_mode without line 466: learning resumes at the page it had reached
PN532_start_learning_mode_resume(c) == [c EXCEPT !.lm = TRUE]

\* PN532Controller.start_learning_mode
PN532_start_learning_mode(c) == [c EXCEPT !.lm = TRUE, !.clp = 1]

\* PageNavigationController.stop_learning_mode
PageNav_stop_learning_mode(c) == [c EXCEPT !.lm = FALSE]

\* PageNavigationController.learn_page_mapping
PageNav_learn_page_mapping(c, tag_id) ==
    IF c.clp <= c.total
    THEN LET c1 == [PageNav_add_page_mapping(c, c.clp, tag_id) EXCEPT !.clp = @ + 1]
         IN  IF c1.clp <= c1.total THEN c1 ELSE PageNav_stop_learning_mode(c1)
    ELSE c

\* PN532Controller.learn_page_mapping
PN532_learn_page_mapping(c, uid_hex) ==
    IF c.clp <= c.total
    THEN LET c1 == [PN532_add_page_mapping(c, c.clp, uid_hex) EXCEPT !.clp = @ + 1]
         IN  IF c1.clp <= c1.total THEN c1 ELSE [c1 EXCEPT !.lm = FALSE]
    ELSE c

\* socket.sendto called once: the event goes out, or sendto raises
sendto(c, page_number) ==
    IF c.sock = "ok" THEN [c EXCEPT !.attempts = @ + 1, !.emitted = page_number]
    ELSE [c EXCEPT !.attempts = @ + 1, !.raised = TRUE]

\* PageNavigationController.send_navigation_command: one goto_page event;
\* except Exception catches what sendto raises
PageNav_send_navigation_command(c, page_number) ==
    [sendto(c, page_number) EXCEPT !.raised = c.raised]

\* send_navigation_command without its except clause
PN532_send_navigation_command_uncaught(c, page_number, tag_info) ==
    IF {"uid_hex", "sens_res", "sel_res"} \subseteq DOMAIN tag_info
    THEN sendto(c, page_number)
    ELSE c

\* PN532Controller.send_navigation_command: one goto_page event
\* the packet reads tag_info['uid_hex'], ['sens_res'] and ['sel_res']; a
\* missing key raises KeyError inside the try and nothing is sent; except
\* Exception catches that and what sendto raises
PN532_send_navigation_command(c, page_number, tag_info) ==
    IF {"uid_hex", "sens_res", "sel_res"} \subseteq DOMAIN tag_info
    THEN [sendto(c, page_number) EXCEPT !.raised = c.raised]
    ELSE c

\* the tag_info PN532Controller.detect_tag returns for a tag
DetectedTag(uid_hex) ==
    [tag_number |-> 1, sens_res |-> 68, sel_res |-> 8, uid_hex |-> uid_hex]

\* PageNavigationController.parse_page_from_tag on a tag whose records name
\* page `content` (0: no readable record): the page if in range, else None (0)
PageNav_parse_page_from_tag(c, content) ==
    IF 1 <= content /\ content <= c.total THEN content ELSE 0

\* PN532Controller.parse_page_from_data on the block read from a tag whose
\* text names page `content` (0: unreadable): the page if in range, else None (0)
PN532_parse_page_from_data(c, content) ==
    IF 1 <= content /\ content <= c.total THEN content ELSE 0

\* PageNavigationController.process_nfc_tag: debounce, then learning or navigation
PageNav_process_nfc_tag(c, tag_id, content) ==
    IF tag_id = c.last_id /\ c.elapsed < TagCooldown THEN c
    ELSE LET c1 == [c EXCEPT !.last_id = tag_id, !.elapsed = 0]
         IN  IF c1.lm THEN PageNav_learn_page_mapping(c1, tag_id)
             ELSE IF tag_id \in DOMAIN c1.rev
             THEN PageNav_send_navigation_command(c1, c1.rev[tag_id])
             ELSE LET page_number == PageNav_parse_page_from_tag(c1, content)
                  IN  IF page_number # 0
                      THEN PageNav_send_navigation_command(
                               PageNav_add_page_mapping(c1, page_number, tag_id),
                               page_number)
                      ELSE c1

\* process_tag without its learning branch
PN532_process_tag_nolearn(c, tag_info, content) ==
    LET uid_hex == tag_info.uid_hex IN
    IF uid_hex = c.last_id /\ c.elapsed < TagCooldown THEN c
    ELSE LET c1 == [c EXCEPT !.last_id = uid_hex, !.elapsed = 0]
         IN  IF uid_hex \in DOMAIN c1.rev
             THEN PN532_send_navigation_command(c1, c1.rev[uid_hex], tag_info)
             ELSE c1

\* PN532Controller.process_tag: debounce, then learning or navigation
PN532_process_tag(c, tag_info, content) ==
    LET uid_hex == tag_info.uid_hex IN
    IF uid_hex = c.last_id /\ c.elapsed < TagCooldown THEN c
    ELSE LET c1 == [c EXCEPT !.last_id = uid_hex, !.elapsed = 0]
         IN  IF c1.lm THEN PN532_learn_page_mapping(c1, uid_hex)
             ELSE IF uid_hex \in DOMAIN c1.rev
             THEN PN532_send_navigation_command(c1, c1.rev[uid_hex], tag_info)
             ELSE LET page_number == PN532_parse_page_from_data(c1, content)
                  IN  IF page_number # 0
                      THEN PN532_send_navigation_command(
                               PN532_add_page_mapping(c1, page_number, uid_hex),
                               page_number, tag_info)
                      ELSE c1

\* the controller's fields after a handler returned c
Becomes(c) ==
    /\ page_mappings' = c.pm
    /\ reverse_mappings' = c.rev
    /\ learning_mode' = c.lm
    /\ current_learning_page' = c.clp
    /\ last_tag_id' = c.last_id
    /\ elapsed' = c.elapsed
    /\ file' = c.file

\* what a handler that returned c did: its argument, the event it sent, whether
\* it raised, and whether it changed the mapping store (memory or file)
Did(op, page, c) ==
    [op |-> op, page |-> page, emitted |-> c.emitted, raised |-> c.raised,
     changed |-> <<c.pm, c.rev, c.file>> # <<page_mappings, reverse_mappings, file>>,
     sock |-> c.sock, attempts |-> c.attempts]

StoreIdle ==
    /\ ctl = "pn532"
    /\ total_pages = 10
    /\ is_running = FALSE
    /\ page_mappings = <<>>
    /\ reverse_mappings = EmptyMap
    /\ learning_mode = FALSE
    /\ current_learning_page = 1
    /\ last_tag_id = NoTag
    /\ elapsed = TagCooldown
    /\ file = NoFile
    /\ lpc = "new"
    /\ outcome = [op |-> "init", page |-> 0, emitted |-> 0, raised |-> FALSE,
                  changed |-> FALSE]

\* start_monitoring of a fresh process: __init__ (a later process may be
\* started with another total_pages argument), load_mappings (the
\* PageNavigationController only), is_running = True
StartMonitoring ==
    /\ ctl \in {"pagenav", "pn532"}
    /\ lpc \in {"new", "exited"}
    /\ \E total \in (IF lpc = "new" THEN {total_pages} ELSE SessionPages) :
          LET c0 == Constructed(ctl, total, file)
              c == IF ctl = "pagenav" THEN PageNav_load_mappings(c0) ELSE c0
          IN  /\ Becomes(c)
              /\ outcome' = Did("start", 0, c)
              /\ total_pages' = total
    /\ is_running' = TRUE
    /\ lpc' = "loop"
    /\ UNCHANGED <<ctl, codecVars, detectVars, watchVars, sessVars, multiVars, raceVars, ctorVars,
            writerVars>>

\* what the handler can read from the tag: its content is read only when the
\* detection is accepted outside learning mode and the uid is unmapped
TagContents(tag_id) ==
    IF \/ (tag_id = last_tag_id /\ elapsed < TagCooldown)
       \/ learning_mode
       \/ tag_id \in DOMAIN reverse_mappings
    THEN {0}
    ELSE 0..(total_pages + 1)

\* one cycle of the monitoring loop in which tag tag_id is presented
Detection(tag_id, content) ==
    /\ lpc = "loop" /\ is_running
    /\ LET c == IF ctl = "pagenav" THEN PageNav_process_nfc_tag(Self, tag_id, content)
                ELSE PN532_process_tag(Self, DetectedTag(tag_id), content)
       IN  /\ Becomes(c)
           /\ outcome' = Did("tag", content, c)
    /\ UNCHANGED <<ctl, total_pages, is_running, lpc, codecVars, detectVars>>

\* one cycle in which tag tag_id is presented while the UDP socket works or
\* while its sendto raises (no route, socket closed)
SocketDetection ==
    /\ lpc = "loop" /\ is_running
    /\ \E tag_id \in Uids : \E content \in TagContents(tag_id) : \E s \in {"ok", "fail"} :
          LET c0 == [Self EXCEPT !.sock = s]
              c == IF ctl = "pagenav" THEN PageNav_process_nfc_tag(c0, tag_id, content)
                   ELSE PN532_process_tag(c0, DetectedTag(tag_id), content)
          IN  /\ Becomes(c)
              /\ outcome' = Did("tag", content, c)
    /\ UNCHANGED <<ctl, total_pages, is_running, lpc, codecVars, detectVars, watchVars,
                   sessVars, multiVars, raceVars, ctorVars, writerVars>>

TagDetected ==
    /\ \E tag_id \in Uids : \E content \in TagContents(tag_id) :
          Detection(tag_id, content)
    /\ UNCHANGED <<watchVars, sessVars, multiVars, raceVars, ctorVars, writerVars>>

\* no detection watched yet
WatchIdle ==
    /\ since = [u \in Uids |-> TagCooldown]
    /\ seen = [uid |-> NoTag, gap |-> TagCooldown, mapped |-> FALSE, emitted |-> 0]
    /\ fed = <<>>

\* a detection, with the clock readings kept
WatchedDetection ==
    \E tag_id \in Uids : \E content \in TagContents(tag_id) :
        /\ Detection(tag_id, content)
        /\ seen' = [uid |-> tag_id, gap |-> since[tag_id],
                    mapped |-> tag_id \in DOMAIN reverse_mappings,
                    emitted |-> outcome'.emitted]
        /\ since' = [since EXCEPT ![tag_id] = IF outcome'.emitted # 0 THEN 0 ELSE @]
        /\ UNCHANGED <<fed, multiVars, sessVars, raceVars, ctorVars, writerVars>>

\* time passes, for the controller and for the watched detections
WatchedTick ==
    /\ elapsed < TagCooldown
    /\ elapsed' = elapsed + 1
    /\ since' = [u \in Uids |-> IF since[u] < TagCooldown THEN since[u] + 1 ELSE since[u]]
    /\ UNCHANGED <<ctl, total_pages, is_running, page_mappings, reverse_mappings,
                   learning_mode, current_learning_page, last_tag_id,
                   file, lpc, outcome, seen, fed, codecVars, detectVars, multiVars,
                   sessVars, raceVars, ctorVars, writerVars>>

\* console: add_mapping <uid> <page>
ConsoleAddMapping ==
    /\ lpc = "loop" /\ is_running /\ ctl = "pagenav"
    /\ \E tag_id \in Uids, page_num \in 0..(total_pages + 1) :
          LET c == PageNav_add_page_mapping(Self, page_num, tag_id)
          IN  /\ Becomes(c)
              /\ outcome' = Did("add", page_num, c)
    /\ UNCHANGED <<ctl, total_pages, is_running, lpc, codecVars, detectVars,
                   watchVars, sessVars, multiVars, raceVars, ctorVars, writerVars>>

\* console: remove_mapping <page>
ConsoleRemoveMapping ==
    /\ lpc = "loop" /\ is_running /\ ctl = "pagenav"
    /\ \E page_num \in 0..(total_pages + 1) :
          LET c == PageNav_remove_page_mapping(Self, page_num)
          IN  /\ Becomes(c)
              /\ outcome' = Did("remove", page_num, c)
    /\ UNCHANGED <<ctl, total_pages, is_running, lpc, codecVars, detectVars,
                   watchVars, sessVars, multiVars, raceVars, ctorVars, writerVars>>

\* console: learn
LearnCommand ==
    /\ lpc = "loop" /\ is_running
    /\ LET c == IF ctl = "pagenav" THEN PageNav_start_learning_mode(Self)
                ELSE PN532_start_learning_mode(Self)
       IN  /\ Becomes(c)
           /\ outcome' = Did("learn", 0, c)
    /\ UNCHANGED <<ctl, total_pages, is_running, lpc, codecVars, detectVars>>

ConsoleLearn == LearnCommand /\ UNCHANGED <<watchVars, sessVars, multiVars, raceVars, ctorVars, writerVars>>

\* console: learn, with the record of what learning is fed started afresh
WatchedLearn == LearnCommand /\ fed' = <<>> /\ UNCHANGED <<since, seen, multiVars, sessVars, raceVars, ctorVars, writerVars>>

\* a detection, with the uids that learning accepted kept
FedDetection ==
    \E tag_id \in Uids : \E content \in TagContents(tag_id) :
        /\ Detection(tag_id, content)
        /\ fed' = IF ~learning_mode THEN <<>>
                  ELSE IF tag_id = last_tag_id /\ elapsed < TagCooldown THEN fed
                  ELSE Append(fed, tag_id)
        /\ UNCHANGED <<since, seen, multiVars, sessVars, raceVars, ctorVars, writerVars>>

\* console: stop_learning
ConsoleStopLearning ==
    /\ lpc = "loop" /\ is_running /\ ctl = "pagenav"
    /\ LET c == PageNav_stop_learning_mode(Self)
       IN  /\ Becomes(c)
           /\ outcome' = Did("stop_learning", 0, c)
    /\ UNCHANGED <<ctl, total_pages, is_running, lpc, codecVars, detectVars,
                   watchVars, sessVars, multiVars, raceVars, ctorVars, writerVars>>

\* console: quit / exit
ConsoleQuit ==
    /\ lpc = "loop" /\ is_running
    /\ is_running' = FALSE
    /\ outcome' = [op |-> "quit", page |-> 0, emitted |-> 0, raised |-> FALSE,
                   changed |-> FALSE]
    /\ UNCHANGED <<ctl, total_pages, page_mappings, reverse_mappings, learning_mode,
                   current_learning_page, last_tag_id, elapsed, file, lpc,
                   codecVars, detectVars, watchVars, sessVars, multiVars, raceVars, ctorVars,
                   writerVars>>

\* the loop sees is_running cleared: stop_monitoring, then main's cleanup,
\* which saves the mappings (the PageNavigationController only)
LoopExit ==
    /\ lpc = "loop" /\ ~is_running
    /\ LET c == IF ctl = "pagenav" THEN PageNav_save_mappings(Self) ELSE Self
       IN  /\ Becomes(c)
           /\ outcome' = Did("exit", 0, c)
    /\ lpc' = "exited"
    /\ UNCHANGED <<ctl, total_pages, is_running, codecVars, detectVars,
                   watchVars, sessVars, multiVars, raceVars, ctorVars, writerVars>>

\* time passes: half a second more since the last accepted tag
Tick ==
    /\ elapsed < TagCooldown
    /\ elapsed' = elapsed + 1
    /\ UNCHANGED <<ctl, total_pages, is_running, page_mappings, reverse_mappings,
                   learning_mode, current_learning_page, last_tag_id,
                   file, lpc, outcome, codecVars, detectVars, watchVars, sessVars, multiVars,
                   raceVars, ctorVars, writerVars>>

-----------------------------------------------------------------------------
(* Multi-tag arbitration and dispatch (MultiTagHandler) *)

\* multi_tag_cooldown, 1.0 s, in units of 0.5 s
MultiTagCooldown == 2

\* tag_priority_strategy values the strategy command can set
Strategies == {"closest", "newest", "specific"}

\* select_priority_tag returned None
NoWinner == [uid_hex |-> NoTag]

\* max(tags, key=...): the first element with the largest key, ks[i] the key
\* of ts[i]
FirstMax(ts, ks) ==
    ts[CHOOSE i \in 1..Len(ts) :
          /\ \A j \in 1..Len(ts) : ks[j] <= ks[i]
          /\ \A j \in 1..(i - 1) : ks[j] < ks[i]]

\* min(tags, key=...): the first element with the smallest key, ks[i] the key
\* of ts[i]
FirstMin(ts, ks) ==
    ts[CHOOSE i \in 1..Len(ts) :
          /\ \A j \in 1..Len(ts) : ks[j] >= ks[i]
          /\ \A j \in 1..(i - 1) : ks[j] > ks[i]]

\* the 'sens_res' of each tag of a list
SensRes(ts) == [i \in 1..Len(ts) |-> ts[i].sens_res]

\* the 'detection_time' of each tag of a list
DetectionTime(ts) == [i \in 1..Len(ts) |-> ts[i].detection_time]

\* select_by_mapping_priority that ignores the mappings
select_by_mapping_priority_signal(c, ts) ==
    FirstMax(ts, SensRes(ts))

\* MultiTagHandler.select_by_mapping_priority
select_by_mapping_priority(c, ts) ==
    LET is_mapped(t) == t.uid_hex \in DOMAIN c.rev
        is_unmapped(t) == t.uid_hex \notin DOMAIN c.rev
        mapped_tags == SelectSeq(ts, is_mapped)
        unmapped_tags == SelectSeq(ts, is_unmapped)
        mapped_page == [i \in 1..Len(mapped_tags) |-> c.rev[mapped_tags[i].uid_hex]]
    IN  IF mapped_tags # <<>> THEN FirstMin(mapped_tags, mapped_page)
        ELSE FirstMax(unmapped_tags, SensRes(unmapped_tags))

\* select_priority_tag that takes the first tag whatever the strategy
select_priority_tag_first(c, strat, ts) == IF ts = <<>> THEN NoWinner ELSE ts[1]

\* select_priority_tag whose newest takes the tag detected last
select_priority_tag_last(c, strat, ts) ==
    IF ts = <<>> THEN NoWinner
    ELSE IF Len(ts) = 1 THEN ts[1]
    ELSE IF strat = "closest" THEN FirstMax(ts, SensRes(ts))
    ELSE IF strat = "newest" THEN ts[Len(ts)]
    ELSE IF strat = "specific" THEN select_by_mapping_priority(c, ts)
    ELSE ts[1]

\* MultiTagHandler.select_priority_tag
select_priority_tag(c, strat, ts) ==
    IF ts = <<>> THEN NoWinner
    ELSE IF Len(ts) = 1 THEN ts[1]
    ELSE IF strat = "closest" THEN FirstMax(ts, SensRes(ts))
    ELSE IF strat = "newest" THEN FirstMax(ts, DetectionTime(ts))
    ELSE IF strat = "specific" THEN select_by_mapping_priority(c, ts)
    ELSE ts[1]

\* MultiTagHandler.process_selected_tag: for a mapped uid the tag data passed
\* to send_navigation_command carries 'uid', not 'uid_hex'
Multi_process_selected_tag(c, tag, total_count, strat, content) ==
    LET uid_hex == tag.uid_hex IN
    IF uid_hex \in DOMAIN c.rev
    THEN PN532_send_navigation_command(c, c.rev[uid_hex],
             [uid |-> uid_hex, sens_res |-> tag.sens_res, sel_res |-> tag.sel_res,
              signal_strength |-> tag.signal_strength,
              total_tags_detected |-> total_count, selection_method |-> strat])
    ELSE LET page_number == PN532_parse_page_from_data(c, content)
         IN  IF page_number # 0
             THEN PN532_send_navigation_command(
                      PN532_add_page_mapping(c, page_number, uid_hex), page_number, tag)
             ELSE c

\* MultiTagHandler.process_multiple_tags
Multi_process_multiple_tags(c, strat, ts, content) ==
    LET priority_tag == select_priority_tag(c, strat, ts) IN
    IF priority_tag = NoWinner THEN c
    ELSE LET priority_uid == priority_tag.uid_hex IN
         IF priority_uid = c.last_id /\ c.elapsed < MultiTagCooldown THEN c
         ELSE LET c1 == [c EXCEPT !.last_id = priority_uid, !.elapsed = 0]
              IN  IF c1.lm THEN PN532_learn_page_mapping(c1, priority_uid)
                  ELSE Multi_process_selected_tag(c1, priority_tag, Len(ts), strat, content)

\* a tag as detect_multiple_tags reports it
PolledTag(n, uid_hex, sens_res, t) ==
    [tag_number |-> n, sens_res |-> sens_res, sel_res |-> 8, uid_hex |-> uid_hex,
     detection_time |-> t, signal_strength |-> estimate_signal_strength(sens_res)]

\* the lists one poll can report: one or two tags (max_tags = 2) of different
\* uids, SENS_RES 0x0020 or 0x0044, their clock readings in order
PolledLists ==
    {<<PolledTag(1, u, sr, 1)>> : u \in Uids, sr \in {32, 68}}
    \cup {<<PolledTag(1, us[1], s1, 1), PolledTag(2, us[2], s2, 2)>> :
             us \in {x \in Uids \X Uids : x[1] # x[2]}, s1 \in {32, 68}, s2 \in {32, 68}}

\* the lists of two tags for which time.time() returned the same reading
TiedLists ==
    {<<PolledTag(1, us[1], s1, 1), PolledTag(2, us[2], s2, 1)>> :
        us \in {x \in Uids \X Uids : x[1] # x[2]}, s1 \in {32, 68}, s2 \in {32, 68}}

\* what process_selected_tag can read from the selected tag: read_tag_data is
\* reached only for an accepted, unmapped winner outside learning mode
MultiContents(ts) ==
    LET w == select_priority_tag(Self, strategy, ts)
    IN  IF \/ (w.uid_hex = last_tag_id /\ elapsed < MultiTagCooldown)
           \/ learning_mode
           \/ w.uid_hex \in DOMAIN reverse_mappings
        THEN {0}
        ELSE 0..(total_pages + 1)

\* no session started: no console thread, the channel not opened
SessIdle ==
    /\ kpc = "none"
    /\ xch = {}
    /\ chan = "closed"
    /\ shut = <<>>
    /\ wrote = {}
    /\ late = 0

\* the defaults of PN532Controller.__init__: port=None, baudrate=115200,
\* udp_port=8890, total_pages=10
DefaultArgs == [port |-> "None", baudrate |-> 115200, udp_port |-> 8890, total_pages |-> 10]

\* PN532Controller.__init__(self, port, baudrate, udp_port, total_pages): the
\* four attributes it stores
PN532_init(port, baudrate, udp_port, total) ==
    [port |-> port, baudrate |-> baudrate, udp_port |-> udp_port, total_pages |-> total]

\* MultiTagHandler.__init__(self, port, udp_port, total_pages) calls
\* super().__init__(port, udp_port, total_pages): three positional arguments,
\* bound to port, baudrate and udp_port; total_pages takes its default
MultiTagHandler_init(port, udp_port, total) ==
    PN532_init(port, udp_port, total, DefaultArgs.total_pages)

\* the object main() asked for and got: the constructor's defaults
CtorIdle ==
    /\ args = DefaultArgs
    /\ conf = [port |-> "None", baudrate |-> 115200, udp_port |-> 8890]

\* no batch in progress, no tag written
WriterIdle ==
    /\ wpc = "idle"
    /\ wpage = 0
    /\ success_count = 0
    /\ failed_pages = <<>>
    /\ tries = [p \in {} |-> 0]
    /\ asked = [p \in {} |-> ""]
    /\ wcall = [page |-> 0, called |-> FALSE, exchanges |-> 0, status |-> 0,
                line |-> <<>>, werr |-> FALSE, ret |-> FALSE]
    /\ tagmem = [u \in {} |-> 0]

\* main() constructs the controller with the arguments of the command line
Construct ==
    /\ lpc = "main"
    /\ LET o == IF ctl = "multi"
                THEN MultiTagHandler_init(args.port, args.udp_port, args.total_pages)
                ELSE PN532_init(args.port, DefaultArgs.baudrate, args.udp_port,
                                args.total_pages)
       IN  /\ conf' = [port |-> o.port, baudrate |-> o.baudrate, udp_port |-> o.udp_port]
           /\ total_pages' = o.total_pages
    /\ lpc' = "new"
    /\ UNCHANGED <<ctl, is_running, page_mappings, reverse_mappings, learning_mode,
                   current_learning_page, last_tag_id, elapsed, file, outcome, args,
                   codecVars, detectVars, watchVars, multiVars, sessVars, raceVars, writerVars>>

\* no call in progress in either thread
NoCall == [op |-> "none", pc |-> "done", page |-> 0, tag |-> NoTag, tmp |-> 0]

RaceIdle ==
    /\ kop = NoCall
    /\ lop = NoCall
    /\ hist = [k |-> NoCall, l |-> NoCall]

-----------------------------------------------------------------------------
(* The console thread and the poll loop, statement by statement.  Both      *)
(* threads call the controller's methods on the same object with no lock;   *)
(* the interpreter may switch threads between any two statements.           *)

\* the commands of command_interface that write the mappings or the
\* learning state: add_mapping, remove_mapping and learn for the
\* PageNavigationController, learn for the PN532Controller
ConsoleCalls ==
    {[op |-> "learn", pc |-> "lm1", page |-> 0, tag |-> NoTag, tmp |-> 0]}
        \cup (IF ctl # "pagenav" THEN {}
              ELSE {[op |-> "add", pc |-> "add1", page |-> p, tag |-> t, tmp |-> 0] :
                       p \in 1..total_pages, t \in Uids}
                   \cup {[op |-> "remove", pc |-> "rm0", page |-> p, tag |-> NoTag,
                          tmp |-> 0] : p \in 1..total_pages})

\* the detections the loop may hand to process_nfc_tag / process_tag: a tag,
\* and the page its content names (0: none readable)
LoopCalls ==
    {[op |-> "detect", pc |-> "test", page |-> content, tag |-> t, tmp |-> 0] :
        t \in Uids, content \in 0..total_pages}

\* the command run alone, start to end
ConsoleCall(c, k) ==
    IF k.op = "add" THEN PageNav_add_page_mapping(c, k.page, k.tag)
    ELSE IF k.op = "remove" THEN PageNav_remove_page_mapping(c, k.page)
    ELSE IF k.op = "learn"
    THEN (IF c.kind = "pagenav" THEN PageNav_start_learning_mode(c)
          ELSE PN532_start_learning_mode(c))
    ELSE c

\* the detection handled alone, start to end
LoopCall(c, l) ==
    IF l.op = "none" THEN c
    ELSE IF c.kind = "pagenav" THEN PageNav_process_nfc_tag(c, l.tag, l.page)
    ELSE PN532_process_tag(c, DetectedTag(l.tag), l.page)

\* the mapping and learning fields after a statement
Stores(pm, rev, lm, clp) ==
    /\ page_mappings' = pm
    /\ reverse_mappings' = rev
    /\ learning_mode' = lm
    /\ current_learning_page' = clp

\* what no statement of either thread touches
RaceFrame ==
    UNCHANGED <<ctl, total_pages, is_running, lpc, outcome, hist, codecVars, detectVars,
                watchVars, multiVars, sessVars, ctorVars, writerVars>>

\* a command is typed while a tag is presented, or one of the two happens alone
RaceBegin ==
    /\ lpc = "loop" /\ is_running
    /\ kop.pc = "done" /\ lop.pc = "done"
    /\ hist.k = NoCall /\ hist.l = NoCall
    /\ \E k \in ConsoleCalls \cup {NoCall}, l \in LoopCalls \cup {NoCall} :
          /\ k # NoCall \/ l # NoCall
          /\ kop' = k
          /\ lop' = l
          /\ hist' = [k |-> k, l |-> l, c |-> Self]
    /\ UNCHANGED <<storeVars, codecVars, detectVars, watchVars, multiVars, sessVars, ctorVars,
            writerVars>>

\* the three statements of add_page_mapping, for the thread whose call is t
\* (the range test holds for every page passed here); `next` is where its
\* caller goes on
AddStatement(t, next) ==
    IF t.pc = "add1"
    THEN /\ Stores(DictPut(page_mappings, t.page, t.tag), reverse_mappings,
                   learning_mode, current_learning_page)
         /\ UNCHANGED file
    ELSE IF t.pc = "add2"
    THEN /\ Stores(page_mappings, MapPut(reverse_mappings, t.tag, t.page),
                   learning_mode, current_learning_page)
         /\ UNCHANGED file
    ELSE /\ Stores(page_mappings, reverse_mappings, learning_mode, current_learning_page)
         /\ file' = IF ctl = "pagenav" THEN PageNav_save_mappings(Self).file ELSE file

AfterAdd(t, next) ==
    [t EXCEPT !.pc = IF t.pc = "add1" THEN "add2"
                     ELSE IF t.pc = "add2" THEN "add3" ELSE next]

\* console: add_mapping <tag> <page>
ConsoleAdd ==
    /\ kop.op = "add" /\ kop.pc \in {"add1", "add2", "add3"}
    /\ AddStatement(kop, "done")
    /\ kop' = AfterAdd(kop, "done")
    /\ UNCHANGED <<last_tag_id, elapsed, lop>>
    /\ RaceFrame

\* console: remove_mapping <page>.  `if page_number in self.page_mappings`,
\* `tag_id = self.page_mappings[page_number]`, the two del statements (a
\* KeyError leaves the method; command_interface catches it), save_mappings
ConsoleRemove ==
    /\ kop.op = "remove" /\ kop.pc \in {"rm0", "rm1", "rm2", "rm3", "rm4"}
    /\ LET has == DictHas(page_mappings, kop.page) IN
       IF kop.pc = "rm0"
       THEN /\ kop' = [kop EXCEPT !.pc = IF has THEN "rm1" ELSE "done"]
            /\ UNCHANGED <<page_mappings, reverse_mappings, file>>
       ELSE IF kop.pc = "rm1"
       THEN /\ kop' = IF has
                      THEN [kop EXCEPT !.pc = "rm2", !.tmp = DictGet(page_mappings, kop.page)]
                      ELSE [kop EXCEPT !.pc = "done"]
            /\ UNCHANGED <<page_mappings, reverse_mappings, file>>
       ELSE IF kop.pc = "rm2"
       THEN /\ kop' = [kop EXCEPT !.pc = IF has THEN "rm3" ELSE "done"]
            /\ page_mappings' = DictDel(page_mappings, kop.page)
            /\ UNCHANGED <<reverse_mappings, file>>
       ELSE IF kop.pc = "rm3"
       THEN /\ kop' = [kop EXCEPT !.pc = IF kop.tmp \in DOMAIN reverse_mappings
                                         THEN "rm4" ELSE "done"]
            /\ reverse_mappings' = MapDel(reverse_mappings, kop.tmp)
            /\ UNCHANGED <<page_mappings, file>>
       ELSE /\ kop' = [kop EXCEPT !.pc = "done"]
            /\ file' = PageNav_save_mappings(Self).file
            /\ UNCHANGED <<page_mappings, reverse_mappings>>
    /\ UNCHANGED <<learning_mode, current_learning_page, last_tag_id, elapsed, lop>>
    /\ RaceFrame

\* console: learn.  start_learning_mode: learning_mode = True, then
\* current_learning_page = 1
ConsoleStartsLearning ==
    /\ kop.op = "learn" /\ kop.pc \in {"lm1", "lm2"}
    /\ IF kop.pc = "lm1"
       THEN /\ Stores(page_mappings, reverse_mappings, TRUE, current_learning_page)
            /\ kop' = [kop EXCEPT !.pc = "lm2"]
       ELSE /\ Stores(page_mappings, reverse_mappings, learning_mode, 1)
            /\ kop' = [kop EXCEPT !.pc = "done"]
    /\ UNCHANGED <<last_tag_id, elapsed, file, lop>>
    /\ RaceFrame

\* process_nfc_tag / process_tag up to the branch it takes: the debounce
\* test, last_tag_id and last_tag_time, `if self.learning_mode`, the lookup
\* in reverse_mappings, the page parsed from the content
LoopDetects ==
    /\ lop.op = "detect" /\ lop.pc = "test"
    /\ IF lop.tag = last_tag_id /\ elapsed < TagCooldown
       THEN /\ lop' = [lop EXCEPT !.op = "debounced", !.pc = "done"]
            /\ UNCHANGED <<last_tag_id, elapsed>>
       ELSE /\ last_tag_id' = lop.tag
            /\ elapsed' = 0
            /\ lop' = IF learning_mode THEN [lop EXCEPT !.op = "learn", !.pc = "chk1"]
                      ELSE IF lop.tag \in DOMAIN reverse_mappings
                      THEN [lop EXCEPT !.op = "navigate", !.pc = "done"]
                      ELSE IF lop.page # 0 THEN [lop EXCEPT !.op = "auto", !.pc = "add1"]
                      ELSE [lop EXCEPT !.op = "unknown", !.pc = "done"]
    /\ UNCHANGED <<page_mappings, reverse_mappings, learning_mode, current_learning_page,
                   file, kop>>
    /\ RaceFrame

\* add_page_mapping called by the loop: from learn_page_mapping (which goes
\* on to the increment) or for a page read from the tag (the event is sent
\* next)
LoopAdd ==
    /\ lop.op \in {"learn", "auto"} /\ lop.pc \in {"add1", "add2", "add3"}
    /\ AddStatement(lop, "next")
    /\ lop' = AfterAdd(lop, IF lop.op = "learn" THEN "inc1" ELSE "done")
    /\ UNCHANGED <<last_tag_id, elapsed, kop>>
    /\ RaceFrame

\* learn_page_mapping around its add_page_mapping: the test of
\* current_learning_page with the argument read from it, the load and the
\* store of `self.current_learning_page += 1`, the second test, and
\* learning_mode = False (stop_learning_mode) when the last page is done
LoopLearns ==
    /\ lop.op = "learn" /\ lop.pc \in {"chk1", "inc1", "inc2", "chk2", "stop"}
    /\ IF lop.pc = "chk1"
       THEN /\ lop' = IF current_learning_page <= total_pages
                      THEN [lop EXCEPT !.pc = "add1", !.page = current_learning_page]
                      ELSE [lop EXCEPT !.pc = "done"]
            /\ UNCHANGED <<learning_mode, current_learning_page>>
       ELSE IF lop.pc = "inc1"
       THEN /\ lop' = [lop EXCEPT !.pc = "inc2", !.tmp = current_learning_page]
            /\ UNCHANGED <<learning_mode, current_learning_page>>
       ELSE IF lop.pc = "inc2"
       THEN /\ lop' = [lop EXCEPT !.pc = "chk2"]
            /\ current_learning_page' = lop.tmp + 1
            /\ UNCHANGED learning_mode
       ELSE IF lop.pc = "chk2"
       THEN /\ lop' = [lop EXCEPT !.pc = IF current_learning_page <= total_pages
                                         THEN "done" ELSE "stop"]
            /\ UNCHANGED <<learning_mode, current_learning_page>>
       ELSE /\ lop' = [lop EXCEPT !.pc = "done"]
            /\ learning_mode' = FALSE
            /\ UNCHANGED current_learning_page
    /\ UNCHANGED <<page_mappings, reverse_mappings, last_tag_id, elapsed, file, kop>>
    /\ RaceFrame

-----------------------------------------------------------------------------
(* One session: main(), start_monitoring's loop and the console thread *)

\* most detection cycles counted after is_running was cleared
MaxLate == 2

\* the commands command_interface acts on; the others only print
Commands ==
    IF ctl = "pagenav" THEN {"learn", "stop_learning", "add_mapping", "quit"}
    ELSE {"learn", "quit"}

\* a learn handler that polls the reader itself
UsesChannel_learn(cmd) == cmd = "learn"

\* whether the handler of a console command uses serial_conn / clf: none does
UsesChannel(cmd) == FALSE

\* command_interface: the handler the command is dispatched to
command_interface(c, cmd, tag_id, page_num) ==
    IF cmd = "learn"
    THEN IF c.kind = "pagenav" THEN PageNav_start_learning_mode(c)
         ELSE PN532_start_learning_mode(c)
    ELSE IF cmd = "stop_learning" THEN PageNav_stop_learning_mode(c)
    ELSE IF cmd = "add_mapping" THEN PageNav_add_page_mapping(c, page_num, tag_id)
    ELSE c

\* whether the handler that turned c into c2 assigned learning_mode,
\* current_learning_page or a mapping
Assigned(c, c2) == <<c2.lm, c2.clp, c2.pm, c2.rev>> # <<c.lm, c.clp, c.pm, c.rev>>

\* main() up to the loop: start_monitoring connects (connect / initialize_nfc
\* may fail), the PageNavigationController loads the mappings, the console
\* thread is started.  MultiTagHandler.start_monitoring calls self.load_mappings,
\* which no class defines: AttributeError leaves start_monitoring.
SessionStart ==
    /\ lpc = "new"
    /\ \E ok \in BOOLEAN :
          LET c == IF ok /\ ctl = "pagenav" THEN PageNav_load_mappings(Self) ELSE Self
              up == ok /\ ctl # "multi"
          IN  /\ Becomes(c)
              /\ outcome' = [Did("start", 0, c) EXCEPT !.raised = (ok /\ ctl = "multi")]
              /\ is_running' = up
              /\ lpc' = IF up THEN "loop" ELSE "cleanup"
              /\ kpc' = IF up THEN "input" ELSE "none"
              /\ chan' = IF ok THEN "open" ELSE "closed"
    /\ UNCHANGED <<ctl, total_pages, xch, shut, wrote, late, codecVars, detectVars,
                   watchVars, multiVars, raceVars, ctorVars, writerVars>>

\* while self.is_running
LoopTest ==
    /\ lpc = "loop"
    /\ lpc' = IF is_running THEN "body" ELSE "stop"
    /\ UNCHANGED <<ctl, total_pages, is_running, page_mappings, reverse_mappings,
                   learning_mode, current_learning_page, last_tag_id, elapsed, file,
                   outcome, codecVars, detectVars, watchVars, multiVars, sessVars, raceVars,
                   ctorVars, writerVars>>

\* shut with a failed exchange noted, once
Failed(sh) == IF \E i \in 1..Len(sh) : sh[i] = "fail" THEN sh ELSE Append(sh, "fail")

\* a detection cycle begins: detect_tag writes its command (a write to a dead
\* port raises, detect_tag catches it and returns None, the loop sleeps);
\* clf.connect starts sensing (on a dead device it raises, and the loop's
\* except Exception leads to the finally clause)
CycleBegin ==
    /\ lpc = "body"
    /\ lpc' = IF chan = "open" THEN "xchg" ELSE IF ctl = "pagenav" THEN "stop" ELSE "loop"
    /\ xch' = IF chan = "open" THEN xch \cup {"loop"} ELSE xch
    /\ late' = IF ~is_running /\ late < MaxLate THEN late + 1 ELSE late
    /\ shut' = IF chan = "open" THEN shut ELSE Failed(shut)
    /\ UNCHANGED <<ctl, total_pages, is_running, page_mappings, reverse_mappings,
                   learning_mode, current_learning_page, last_tag_id, elapsed, file,
                   outcome, kpc, chan, wrote, codecVars, detectVars, watchVars,
                   multiVars, raceVars, ctorVars, writerVars>>

\* the end of a cycle with the controller as handler c left it
CycleEnds(c, content) ==
    /\ Becomes(c)
    /\ outcome' = Did("tag", content, c)
    /\ wrote' = IF Assigned(Self, c) THEN wrote \cup {"loop"} ELSE wrote
    /\ xch' = xch \ {"loop"}
    /\ shut' = IF chan = "open" THEN shut ELSE Failed(shut)
    /\ UNCHANGED <<ctl, total_pages, is_running, kpc, chan, late, codecVars,
                   detectVars, watchVars, multiVars, raceVars, ctorVars, writerVars>>

\* PN532Controller: read_response returns within the serial timeouts; with no
\* usable response, or when the read raises on a dead port (read_response
\* catches it), detect_tag returns None; with a tag process_tag runs; then the
\* loop sleeps
PN532CycleEnd ==
    /\ lpc = "xchg" /\ ctl = "pn532"
    /\ lpc' = "loop"
    /\ \/ CycleEnds(Self, 0)
       \/ /\ chan = "open"
          /\ \E tag_id \in Uids : \E content \in TagContents(tag_id) :
                CycleEnds(PN532_process_tag(Self, DetectedTag(tag_id), content), content)

\* PageNavigationController: clf.connect returns when a tag is presented
\* (process_nfc_tag is its on-connect callback) or when the library gives up
\* without one; on a dead device it raises
ConnectReturns ==
    /\ lpc = "xchg" /\ ctl = "pagenav"
    /\ \/ /\ chan = "open" /\ lpc' = "loop"
          /\ \/ CycleEnds(Self, 0)
             \/ \E tag_id \in Uids : \E content \in TagContents(tag_id) :
                   CycleEnds(PageNav_process_nfc_tag(Self, tag_id, content), content)
       \/ /\ chan = "dead" /\ lpc' = "stop"
          /\ CycleEnds(Self, 0)

\* KeyboardInterrupt in the main thread while it is in the loop
Interrupt ==
    /\ lpc \in {"loop", "body", "xchg"}
    /\ lpc' = "stop"
    /\ xch' = xch \ {"loop"}
    /\ UNCHANGED <<ctl, total_pages, is_running, page_mappings, reverse_mappings,
                   learning_mode, current_learning_page, last_tag_id, elapsed, file,
                   outcome, kpc, chan, shut, wrote, late, codecVars, detectVars,
                   watchVars, multiVars, raceVars, ctorVars, writerVars>>

\* the reader is unplugged
ChannelDies ==
    /\ chan = "open" /\ lpc \in {"loop", "body", "xchg"}
    /\ chan' = "dead"
    /\ UNCHANGED <<storeVars, kpc, xch, shut, wrote, late, codecVars, detectVars,
                   watchVars, multiVars, raceVars, ctorVars, writerVars>>

\* start_monitoring's finally clause: stop_monitoring closes serial_conn / clf
StopMonitoring ==
    /\ lpc = "stop"
    /\ lpc' = "cleanup"
    /\ is_running' = FALSE
    /\ chan' = "released"
    /\ shut' = Append(shut, "release")
    /\ UNCHANGED <<ctl, total_pages, page_mappings, reverse_mappings, learning_mode,
                   current_learning_page, last_tag_id, elapsed, file, outcome,
                   kpc, xch, wrote, late, codecVars, detectVars, watchVars, multiVars,
                   raceVars, ctorVars, writerVars>>

\* main's finally clause.  PageNavigationController.cleanup: stop_monitoring
\* (clf is None by now unless start_monitoring never reached its loop), then
\* save_mappings; PN532Controller and MultiTagHandler: stop_monitoring again
Cleanup ==
    /\ lpc = "cleanup"
    /\ lpc' = "exited"
    /\ is_running' = FALSE
    /\ LET held == chan \in {"open", "dead"}
           c == IF ctl = "pagenav" THEN PageNav_save_mappings(Self) ELSE Self
       IN  /\ Becomes(c)
           /\ outcome' = Did("exit", 0, c)
           /\ chan' = IF held THEN "released" ELSE chan
           /\ shut' = (IF held THEN Append(shut, "release") ELSE shut)
                      \o (IF ctl = "pagenav" THEN <<"flush">> ELSE <<>>)
    /\ UNCHANGED <<ctl, total_pages, kpc, xch, wrote, late, codecVars, detectVars,
                   watchVars, multiVars, raceVars, ctorVars, writerVars>>

\* the console thread reads a line and command_interface acts on it
\* (add_mapping for page 1 or for a page out of range); quit, or is_running
\* found cleared afterwards, ends the thread
ConsoleCommand ==
    /\ kpc = "input" /\ lpc # "exited"
    /\ \E cmd \in Commands :
       \E tag_id \in (IF cmd = "add_mapping" THEN Uids ELSE {NoTag}) :
       \E page_num \in (IF cmd = "add_mapping" THEN {1, total_pages + 1} ELSE {0}) :
          LET c == command_interface(Self, cmd, tag_id, page_num)
          IN  /\ Becomes(c)
              /\ outcome' = Did(cmd, page_num, c)
              /\ is_running' = IF cmd = "quit" THEN FALSE ELSE is_running
              /\ kpc' = IF cmd = "quit" \/ ~is_running THEN "ended" ELSE "input"
              /\ xch' = IF UsesChannel(cmd) THEN xch \cup {"console"} ELSE xch
              /\ wrote' = IF cmd \in {"learn", "stop_learning"} \/ Assigned(Self, c)
                          THEN wrote \cup {"console"} ELSE wrote
    /\ UNCHANGED <<ctl, total_pages, lpc, chan, shut, late, codecVars, detectVars,
                   watchVars, multiVars, raceVars, ctorVars, writerVars>>

-----------------------------------------------------------------------------
(* One poll cycle of PN532Controller, from the bytes on the line *)

\* the frame the PN532 sends for a response payload:
\* 00 00 FF LEN LCS D5 <payload> DCS 00
DeviceFrame(pd) ==
    LET length == Len(pd) + 1
    IN  <<0, 0, 255, length, And0xFF(256 - length), 213>> \o pd
            \o <<And0xFF(256 - And0xFF(213 + Sum(pd))), 0>>

\* the InListPassiveTarget response for one target: 4B, the count, the record
TargetPayload(rec) == <<75, 1>> \o RecordBytes(rec)

\* the hex string of a uid_hex given as digits
UidString(digits) ==
    IF digits = <<0, 4, 10, 1>> THEN "04a1"
    ELSE IF digits = <<0, 4, 11, 2>> THEN "04b2"
    ELSE "04"

\* detect_tag has written its command; the line holds the device's frame for
\* the tag 04a1 (followed or not by further bytes), nothing, the frame with a
\* wrong start code, a proper prefix of it, or the frame with another byte in
\* the place of DCS
CycleDelivers ==
    /\ cpc = "idle" /\ lpc = "loop" /\ is_running
    /\ \E sr \in {32, 68} :
          LET rec == [tag_number |-> 1, sens_res |-> sr, sel_res |-> 8, uid |-> <<4, 161>>]
              f == DeviceFrame(TargetPayload(rec))
              dcs == Len(f) - 1
          IN  \/ \E t \in Trailing : Deliver(f \o t, "frame")
              \/ Deliver(<<>>, "missing")
              \/ \E t \in Trailing : Deliver([f EXCEPT ![3] = 0] \o t, "header")
              \/ \E n \in 1..(Len(f) - 1) : Deliver(Take(f, n), "trunc")
              \/ \E t \in Trailing : \E b \in (0..255) \ {f[dcs]} :
                    Deliver([f EXCEPT ![dcs] = b] \o t, "dcs")

\* the rest of the cycle: detect_tag on what read_response returned, and
\* process_tag when it returned a tag (an unmapped tag's block read fails)
CycleFinish ==
    /\ cpc = "done" /\ lpc = "loop"
    /\ LET t == detect_tag(FALSE, response)
           c == IF t = <<>> THEN Self
                ELSE PN532_process_tag(Self,
                         [tag_number |-> t[1].tag_number, sens_res |-> t[1].sens_res,
                          sel_res |-> t[1].sel_res, uid_hex |-> UidString(t[1].uid_hex)], 0)
       IN  /\ tags' = t
           /\ Becomes(c)
           /\ outcome' = Did("tag", 0, c)
    /\ cpc' = "polled"
    /\ UNCHANGED <<data, frame, rx, wire, response, mode, rerr, drecs, dresp, dtimes,
                   dwerr, dpc, ctl, total_pages, is_running, lpc, watchVars, multiVars,
                   sessVars, raceVars, ctorVars, writerVars>>

-----------------------------------------------------------------------------
(* PN532Controller.connect and initialize_pn532, from the bytes on the line *)

\* the device's frame for its GetFirmwareVersion response (03, IC, Ver, Rev,
\* Support) and for its SAMConfiguration response (15)
FirmwareFrame == DeviceFrame(<<3, 50, 1, 6, 7>>)
SamFrame == DeviceFrame(<<21>>)

\* what the line may hold after a command of initialize_pn532: the device's
\* frame for it (followed or not by a further byte), nothing, the frame with a
\* wrong start code, a prefix of it, or the frame with another byte in the
\* place of DCS
AnswerLines(f) ==
    LET dcs == Len(f) - 1
    IN  {f, f \o <<0>>, <<>>, [f EXCEPT ![3] = 0], Take(f, 3), Take(f, dcs)}
            \cup {[f EXCEPT ![dcs] = x] \o <<0>> :
                      x \in (FlipBytes \cup {And0xFF(f[dcs] + 213)}) \ {f[dcs]}}

\* the port is open and initialize_pn532 has written GetFirmwareVersion
FirmwareAnswers ==
    /\ lpc = "new" /\ cpc = "idle"
    /\ \E w \in AnswerLines(FirmwareFrame) : Deliver(w, "firmware")

\* the rest of initialize_pn532 and of connect.  The firmware response, when
\* there is one, is only printed; SAMConfiguration is written and its response
\* read after whatever the first read left on the line; the result is whether
\* that response is not None, or False for any exception.
ConnectFinish ==
    /\ lpc = "new" /\ cpc = "done"
    /\ \E w \in AnswerLines(SamFrame) : \E err \in {"none", "read1"} :
          LET r == read_response(rx \o w, err)
              ok == r.ret # None
          IN  /\ response' = r.ret
              /\ rx' = r.rest
              /\ wire' = w
              /\ rerr' = err
              /\ mode' = "sam"
              /\ cpc' = "connected"
              /\ is_running' = ok
              /\ lpc' = IF ok THEN "loop" ELSE "cleanup"
              /\ kpc' = IF ok THEN "input" ELSE "none"
    /\ chan' = "open"
    /\ outcome' = Did("start", 0, Self)
    /\ UNCHANGED <<data, frame, ctl, total_pages, page_mappings, reverse_mappings,
                   learning_mode, current_learning_page, last_tag_id, elapsed, file,
                   xch, shut, wrote, late, detectVars, watchVars, multiVars, raceVars,
                   ctorVars, writerVars>>

\* the handler's arbitration state before any poll
MultiIdle ==
    /\ strategy = "closest"
    /\ polled = <<>>
    /\ winner = NoWinner

\* console: strategy
ChangeStrategy ==
    /\ ctl = "multi"
    /\ \E st \in Strategies \ {strategy} : strategy' = st
    /\ UNCHANGED <<polled, winner, storeVars, codecVars, detectVars, watchVars, sessVars, raceVars,
            ctorVars, writerVars>>

\* console: learn
MultiLearn ==
    /\ ctl = "multi"
    /\ LET c == PN532_start_learning_mode(Self)
       IN  /\ Becomes(c)
           /\ outcome' = Did("learn", 0, c)
    /\ UNCHANGED <<ctl, total_pages, is_running, lpc, codecVars, detectVars, watchVars, sessVars,
                   multiVars, raceVars, ctorVars, writerVars>>

\* one cycle of the loop in which detect_multiple_tags reported a list of lists
PollCycle(lists) ==
    /\ ctl = "multi"
    /\ \E ts \in lists : \E content \in MultiContents(ts) :
          LET c == Multi_process_multiple_tags(Self, strategy, ts, content)
          IN  /\ Becomes(c)
              /\ outcome' = Did("tag", content, c)
              /\ polled' = ts
              /\ winner' = select_priority_tag(Self, strategy, ts)
    /\ UNCHANGED <<ctl, total_pages, is_running, lpc, strategy, codecVars, detectVars,
                   watchVars, sessVars, raceVars, ctorVars, writerVars>>

\* a cycle whose tags were stamped with successive clock readings
ProcessMultipleTags == PollCycle(PolledLists)

\* a cycle whose two tags were stamped with the same clock reading
ProcessTiedTags == PollCycle(TiedLists)

\* time passes: half a second more since the last accepted winner
MultiTick ==
    /\ ctl = "multi"
    /\ elapsed < MultiTagCooldown
    /\ elapsed' = elapsed + 1
    /\ UNCHANGED <<ctl, total_pages, is_running, page_mappings, reverse_mappings,
                   learning_mode, current_learning_page, last_tag_id,
                   file, lpc, outcome, codecVars, detectVars, watchVars, sessVars, multiVars,
                   raceVars, ctorVars, writerVars>>

-----------------------------------------------------------------------------
(* Specifications *)

\* the frame codec on bounded inputs
InitCodec ==
    /\ data \in Payloads \cup {<<>>}
    /\ frame = <<>>
    /\ rx = <<>>
    /\ wire = <<>>
    /\ response = None
    /\ cpc = "init"
    /\ mode = "none"
    /\ rerr = "none"
    /\ DetectIdle
    /\ StoreIdle
    /\ WatchIdle
    /\ MultiIdle
    /\ SessIdle
    /\ RaceIdle
    /\ WriterIdle
    /\ CtorIdle

NextCodec ==
    \/ BuildCommand
    \/ DeliverFrame
    \/ DeliverCorrupted
    \/ DeliverTruncated
    \/ DeliverRaw
    \/ ReadResponse

SpecCodec == InitCodec /\ [][NextCodec]_vars

\* the mapping store of either controller over sessions
InitStore ==
    /\ ctl \in {"pagenav", "pn532"}
    /\ total_pages \in SessionPages
    /\ is_running = FALSE
    /\ page_mappings = <<>>
    /\ reverse_mappings = EmptyMap
    /\ learning_mode = FALSE
    /\ current_learning_page = 1
    /\ last_tag_id = NoTag
    /\ elapsed = TagCooldown
    /\ file = NoFile
    /\ lpc = "new"
    /\ outcome = [op |-> "init", page |-> 0, emitted |-> 0, raised |-> FALSE,
                  changed |-> FALSE]
    /\ CodecIdle
    /\ DetectIdle
    /\ WatchIdle
    /\ MultiIdle
    /\ SessIdle
    /\ RaceIdle
    /\ WriterIdle
    /\ CtorIdle

NextStore ==
    \/ StartMonitoring
    \/ TagDetected
    \/ ConsoleAddMapping
    \/ ConsoleRemoveMapping
    \/ ConsoleLearn
    \/ ConsoleStopLearning
    \/ ConsoleQuit
    \/ LoopExit
    \/ Tick

SpecStore == InitStore /\ [][NextStore]_vars

\* the multi-tag detector on bounded responses
InitDetect ==
    /\ DetectIdle
    /\ CodecIdle
    /\ StoreIdle
    /\ WatchIdle
    /\ MultiIdle
    /\ SessIdle
    /\ RaceIdle
    /\ WriterIdle
    /\ CtorIdle

NextDetect ==
    \/ DeviceResponds
    \/ DetectMultipleTags

SpecDetect == InitDetect /\ [][NextDetect]_vars

\* the single-tag detector on bounded responses
InitSingle == InitDetect

NextSingle ==
    \/ DeviceAnswers
    \/ DetectTag

SpecSingle == InitSingle /\ [][NextSingle]_vars

\* detections of one session against the clock
InitDebounce == InitStore

NextDebounce ==
    \/ StartMonitoring
    \/ WatchedDetection
    \/ WatchedTick

SpecDebounce == InitDebounce /\ [][NextDebounce]_vars

\* learning over sessions
InitLearn == InitStore

NextLearn ==
    \/ StartMonitoring
    \/ WatchedLearn
    \/ FedDetection
    \/ Tick
    \/ ConsoleQuit
    \/ LoopExit

SpecLearn == InitLearn /\ [][NextLearn]_vars

\* the multi-tag handler: arbitration, debounce, learning and dispatch
InitMulti ==
    /\ ctl = "multi"
    /\ total_pages \in SessionPages
    /\ is_running = FALSE
    /\ page_mappings = <<>>
    /\ reverse_mappings = EmptyMap
    /\ learning_mode = FALSE
    /\ current_learning_page = 1
    /\ last_tag_id = NoTag
    /\ elapsed = MultiTagCooldown
    /\ file = NoFile
    /\ lpc = "new"
    /\ outcome = [op |-> "init", page |-> 0, emitted |-> 0, raised |-> FALSE,
                  changed |-> FALSE]
    /\ CodecIdle
    /\ DetectIdle
    /\ WatchIdle
    /\ MultiIdle
    /\ SessIdle
    /\ RaceIdle
    /\ WriterIdle
    /\ CtorIdle

NextMulti ==
    \/ ChangeStrategy
    \/ MultiLearn
    \/ ProcessMultipleTags
    \/ MultiTick

SpecMulti == InitMulti /\ [][NextMulti]_vars

\* arbitration with the clock readings of one poll equal or successive
InitNewest == InitMulti

NextNewest ==
    \/ ChangeStrategy
    \/ ProcessMultipleTags
    \/ ProcessTiedTags
    \/ MultiTick

SpecNewest == InitNewest /\ [][NextNewest]_vars

\* detections and the learn command in one session of any of the three controllers
InitDispatch == InitStore \/ InitMulti

NextDispatch ==
    \/ StartMonitoring
    \/ TagDetected
    \/ ConsoleLearn
    \/ ConsoleStopLearning
    \/ Tick
    \/ ChangeStrategy
    \/ MultiLearn
    \/ ProcessMultipleTags
    \/ MultiTick

SpecDispatch == InitDispatch /\ [][NextDispatch]_vars

\* one poll cycle of a running PN532Controller: idle or learning, with no
\* mapping or with 04a1 mapped to page 1
InitCycle ==
    /\ CodecIdle
    /\ DetectIdle
    /\ WatchIdle
    /\ MultiIdle
    /\ SessIdle
    /\ RaceIdle
    /\ WriterIdle
    /\ CtorIdle
    /\ ctl = "pn532"
    /\ total_pages = MaxPages
    /\ is_running = TRUE
    /\ lpc = "loop"
    /\ learning_mode \in BOOLEAN
    /\ current_learning_page = 1
    /\ \E mapped \in BOOLEAN :
          /\ page_mappings = IF mapped THEN <<(<<1, "04a1">>)>> ELSE <<>>
          /\ reverse_mappings = IF mapped THEN MapPut(EmptyMap, "04a1", 1) ELSE EmptyMap
    /\ last_tag_id = NoTag
    /\ elapsed = TagCooldown
    /\ file = NoFile
    /\ outcome = [op |-> "init", page |-> 0, emitted |-> 0, raised |-> FALSE,
                  changed |-> FALSE]

NextCycle ==
    \/ CycleDelivers
    \/ ReadResponse
    \/ CycleFinish

SpecCycle == InitCycle /\ [][NextCycle]_vars

\* a PN532Controller just constructed, about to connect
InitConnect ==
    /\ CodecIdle
    /\ DetectIdle
    /\ WatchIdle
    /\ MultiIdle
    /\ SessIdle
    /\ RaceIdle
    /\ WriterIdle
    /\ CtorIdle
    /\ ctl = "pn532"
    /\ total_pages = MaxPages
    /\ is_running = FALSE
    /\ lpc = "new"
    /\ learning_mode = FALSE
    /\ current_learning_page = 1
    /\ page_mappings = <<>>
    /\ reverse_mappings = EmptyMap
    /\ last_tag_id = NoTag
    /\ elapsed = TagCooldown
    /\ file = NoFile
    /\ outcome = [op |-> "init", page |-> 0, emitted |-> 0, raised |-> FALSE,
                  changed |-> FALSE]

NextConnect ==
    \/ FirmwareAnswers
    \/ ReadResponse
    \/ ConnectFinish

SpecConnect == InitConnect /\ [][NextConnect]_vars

\* detections of either controller while the UDP socket works or fails
InitEmit == InitStore

NextEmit ==
    \/ StartMonitoring
    \/ SocketDetection
    \/ ConsoleLearn
    \/ Tick

SpecEmit == InitEmit /\ [][NextEmit]_vars

\* the console thread and the poll loop of either controller, statement by
\* statement
\* a running session of either controller at rest: no mapping, page 1
\* mapped, or pages 1 and 2 mapped; idle, or learning at some page
InitRace ==
    /\ CodecIdle
    /\ DetectIdle
    /\ WatchIdle
    /\ MultiIdle
    /\ SessIdle
    /\ RaceIdle
    /\ WriterIdle
    /\ CtorIdle
    /\ ctl \in {"pagenav", "pn532"}
    /\ total_pages = MaxPages
    /\ is_running = TRUE
    /\ lpc = "loop"
    /\ \E n \in 0..2 :
          LET pm == SubSeq(<<(<<1, "04a1">>), (<<2, "04b2">>)>>, 1, n)
          IN  /\ page_mappings = pm
              /\ reverse_mappings = MapOfValues(pm)
              /\ file = IF ctl = "pagenav" /\ n > 0
                        THEN PageNav_save_mappings(
                                 [Constructed(ctl, total_pages, NoFile) EXCEPT !.pm = pm]).file
                        ELSE NoFile
    /\ \/ learning_mode = FALSE /\ current_learning_page \in {1, total_pages + 1}
       \/ learning_mode = TRUE /\ current_learning_page \in 1..total_pages
    /\ last_tag_id = NoTag
    /\ elapsed = TagCooldown
    /\ outcome = [op |-> "init", page |-> 0, emitted |-> 0, raised |-> FALSE,
                  changed |-> FALSE]

NextRace ==
    \/ RaceBegin
    \/ ConsoleAdd
    \/ ConsoleRemove
    \/ ConsoleStartsLearning
    \/ LoopDetects
    \/ LoopAdd
    \/ LoopLearns

SpecRace == InitRace /\ [][NextRace]_vars

\* the files a PageNavigationController may find at start: none, one that is
\* not JSON, and stored mappings of up to two entries whose keys are page
\* numbers or the text "p" (character 25)
StoredFiles ==
    {NoFile, Unparsable}
        \cup {[exists |-> TRUE, page_mappings |-> m, total_pages |-> MaxPages] :
                 m \in SeqsOf({<<k, u>> : k \in {<<1>>, <<2>>, <<25>>}, u \in Uids}, 0, 2)}

\* a PageNavigationController constructed, whatever page_mappings.json holds
InitLoad ==
    /\ CodecIdle
    /\ DetectIdle
    /\ WatchIdle
    /\ MultiIdle
    /\ SessIdle
    /\ RaceIdle
    /\ WriterIdle
    /\ CtorIdle
    /\ ctl = "pagenav"
    /\ total_pages \in SessionPages
    /\ is_running = FALSE
    /\ page_mappings = <<>>
    /\ reverse_mappings = EmptyMap
    /\ learning_mode = FALSE
    /\ current_learning_page = 1
    /\ last_tag_id = NoTag
    /\ elapsed = TagCooldown
    /\ file \in StoredFiles
    /\ lpc = "new"
    /\ outcome = [op |-> "init", page |-> 0, emitted |-> 0, raised |-> FALSE,
                  changed |-> FALSE]

\* start_monitoring calls load_mappings once, on the object just constructed
NextLoad == StartMonitoring

SpecLoad == InitLoad /\ [][NextLoad]_vars

-----------------------------------------------------------------------------
\* The tag writer (pn532_tag_writer.py) and the reader's parse of what it wrote

\* the UTF-8 bytes of the characters 第 (U+7B2C) and 页 (U+9875)
Di == <<231, 172, 172>>
Ye == <<233, 161, 181>>

\* f"第{page_number}页".encode('utf-8'): the decimal digits are ASCII
encode_page_text(page_number) ==
    Di \o [i \in 1..Len(str(page_number)) |-> 48 + str(page_number)[i]] \o Ye

\* a sequence cut or filled with zero bytes to n bytes
ZeroFill(b, n) == [i \in 1..n |-> IF i <= Len(b) THEN b[i] ELSE 0]

\* the 16-byte block of write_page_tag: page, total, text length, a reserved
\* byte, then at most 12 bytes of the text; the rest stays zero
data_block(page_number, total) ==
    LET text_bytes == encode_page_text(page_number)
    IN  <<page_number, total, Len(text_bytes), 0>> \o ZeroFill(Take(text_bytes, 12), 12)

\* bytes.decode('utf-8', errors='ignore') as code points, for sequences of one
\* to three bytes: a byte that starts no well-formed sequence is dropped
RECURSIVE decode_ignore(_)
decode_ignore(b) ==
    IF b = <<>> THEN <<>>
    ELSE LET h == b[1]
             cont(i) == Len(b) >= i /\ b[i] \in 128..191
         IN  IF h < 128 THEN <<h>> \o decode_ignore(Drop(b, 1))
             ELSE IF h \in 194..223 /\ cont(2)
             THEN <<(h - 192) * 64 + (b[2] - 128)>> \o decode_ignore(Drop(b, 2))
             ELSE IF h \in 224..239 /\ cont(2) /\ cont(3)
             THEN <<(h - 224) * 4096 + (b[2] - 128) * 64 + (b[3] - 128)>>
                      \o decode_ignore(Drop(b, 3))
             ELSE decode_ignore(Drop(b, 1))

\* the characters str.strip() removes (below U+3000)
Whitespace == (9..13) \cup (28..32) \cup {133, 160, 5760} \cup (8192..8202)
                  \cup {8232, 8233, 8239, 8287}

RECURSIVE lstrip(_)
lstrip(t) == IF t # <<>> /\ Head(t) \in Whitespace THEN lstrip(Tail(t)) ELSE t

RECURSIVE rstrip(_)
rstrip(t) ==
    IF t # <<>> /\ t[Len(t)] \in Whitespace THEN rstrip(SubSeq(t, 1, Len(t) - 1)) ELSE t

\* str.strip()
strip(t) == rstrip(lstrip(t))

\* the digits of a text of ASCII digits; <<>> for any other text, so that
\* isdigits of it is str.isdigit()
digits_of(t) ==
    IF \A i \in 1..Len(t) : t[i] \in 48..57 THEN [i \in 1..Len(t) |-> t[i] - 48] ELSE <<>>

\* the page the text of a block names for parse_page_from_data, before the
\* range test: the number of "N" or of "第N页", else 0
text_page(d) ==
    LET text == strip(decode_ignore(d))
        num_str == SubSeq(text, 2, Len(text) - 1)
    IN  IF d = <<>> THEN 0
        ELSE IF isdigits(digits_of(text)) THEN int(digits_of(text))
        ELSE IF Len(text) >= 2 /\ text[1] = 31532 /\ text[Len(text)] = 39029
                    /\ isdigits(digits_of(num_str))
        THEN int(digits_of(num_str))
        ELSE 0

\* PN532Controller.parse_page_from_data on the bytes of a block
parse_page_from_data(c, d) == PN532_parse_page_from_data(c, text_page(d))

\* PN532TagWriter.write_tag_data: the length test, one InDataExchange write of
\* the block (werr: the serial write raises), one read_response on what the
\* line holds; True only for a response whose first byte is 0
write_tag_data(tag_info, block, d, werr, line) ==
    IF Len(d) # 16 THEN [ret |-> FALSE, exchanges |-> 0, cmd |-> <<>>]
    ELSE LET cmd == build_command(<<64, tag_info.tag_number, 160, block>> \o d)
             r == read_response(line, "none").ret
         IN  [ret |-> ~werr /\ r.tag = "list" /\ Len(r.val) >= 1 /\ r.val[1] = 0,
              exchanges |-> 1, cmd |-> cmd]

\* PN532TagWriter.write_page_tag: tag is the tag detected within 30 s (NoTag:
\* none); a page or total that is no byte raises inside the try
write_page_tag(page_number, total, tag, werr, line) ==
    IF tag = NoTag \/ page_number \notin 0..255 \/ total \notin 0..255
    THEN [ret |-> FALSE, called |-> FALSE, exchanges |-> 0, block |-> <<>>]
    ELSE LET w == write_tag_data(DetectedTag(tag), 4, data_block(page_number, total),
                                 werr, line)
         IN  [ret |-> w.ret, called |-> TRUE, exchanges |-> w.exchanges,
              block |-> data_block(page_number, total)]

\* what the line may hold after the write command: the device's InDataExchange
\* response (41, status), followed or not by a further byte, nothing, a
\* prefix of it, or the frame with the byte read_response accepts in the place
\* of DCS
WriteStatuses == {0, 1}
WriteAnswers(st) ==
    LET f == DeviceFrame(<<65, st>>)
        dcs == Len(f) - 1
    IN  {f, f \o <<0>>, <<>>, Take(f, dcs), [f EXCEPT ![dcs] = And0xFF(f[dcs] + 213)] \o <<0>>}

\* the retry branch of batch_write_tags without failed_pages.remove(page)
batch_retry_keep(sc, fp, ok) == IF ok THEN [sc |-> sc + 1, fp |-> fp] ELSE [sc |-> sc, fp |-> fp]

\* the retry branch of batch_write_tags: a second success counts and takes
\* the page (the last one appended) out of failed_pages
batch_retry(sc, fp, ok) ==
    IF ok THEN [sc |-> sc + 1, fp |-> SubSeq(fp, 1, Len(fp) - 1)] ELSE [sc |-> sc, fp |-> fp]

\* for page in range(1, total_pages + 1): the next page, or the return
NextPage(page) ==
    IF page < total_pages THEN wpc' = "write" /\ wpage' = page + 1
    ELSE wpc' = "done" /\ wpage' = page

\* batch_write_tags(total_pages) begins after the operator's Enter
BatchBegin ==
    /\ wpc = "idle"
    /\ wpc' = "write"
    /\ wpage' = 1
    /\ success_count' = 0
    /\ failed_pages' = <<>>
    /\ tries' = [p \in 1..total_pages |-> 0]
    /\ asked' = [p \in 1..total_pages |-> ""]
    /\ UNCHANGED <<wcall, tagmem, codecVars, detectVars, storeVars, watchVars, multiVars,
                   sessVars, raceVars, ctorVars>>

\* one call of write_page_tag(wpage, total_pages): the operator presents a tag
\* or none, the device answers the write with a status (0: it wrote the
\* block); wcall.ret is what the call returned
WriteCall ==
    \E tag \in Uids \cup {NoTag} : \E werr \in BOOLEAN : \E st \in WriteStatuses :
    \E line \in WriteAnswers(st) :
        LET w == write_page_tag(wpage, total_pages, tag, werr, line)
        IN  /\ wcall' = [page |-> wpage, called |-> w.called, exchanges |-> w.exchanges,
                         status |-> st, line |-> line, werr |-> werr, ret |-> w.ret]
            /\ tries' = [tries EXCEPT ![wpage] = @ + 1]
            /\ tagmem' = IF w.called /\ ~werr /\ st = 0
                         THEN MapPut(tagmem, tag, [page |-> wpage, block |-> w.block])
                         ELSE tagmem

\* the first attempt of a page
WritePage ==
    /\ wpc = "write"
    /\ WriteCall
    /\ IF wcall'.ret
       THEN /\ success_count' = success_count + 1
            /\ failed_pages' = failed_pages
            /\ NextPage(wpage)
       ELSE /\ success_count' = success_count
            /\ failed_pages' = Append(failed_pages, wpage)
            /\ wpc' = "ask" /\ wpage' = wpage
    /\ UNCHANGED <<asked, codecVars, detectVars, storeVars, watchVars, multiVars,
                   sessVars, raceVars, ctorVars>>

\* retry = input(...).lower(): 'y' leads to the second attempt
AnswerRetry ==
    /\ wpc = "ask"
    /\ \E retry \in {"y", "n"} :
          /\ asked' = [asked EXCEPT ![wpage] = retry]
          /\ IF retry = "y" THEN wpc' = "rewrite" /\ wpage' = wpage ELSE NextPage(wpage)
    /\ UNCHANGED <<success_count, failed_pages, tries, wcall, tagmem, codecVars,
                   detectVars, storeVars, watchVars, multiVars, sessVars, raceVars,
                   ctorVars>>

\* the second attempt of a page
RewritePage ==
    /\ wpc = "rewrite"
    /\ WriteCall
    /\ LET b == batch_retry(success_count, failed_pages, wcall'.ret)
       IN  success_count' = b.sc /\ failed_pages' = b.fp
    /\ NextPage(wpage)
    /\ UNCHANGED <<asked, codecVars, detectVars, storeVars, watchVars, multiVars,
                   sessVars, raceVars, ctorVars>>

\* the reader (a PN532Controller with the same number of pages) detects a tag
\* the writer wrote and reads its block 4: process_tag on the block's page
ReadBack ==
    /\ wpc = "done"
    /\ \E u \in DOMAIN tagmem :
          LET c == PN532_process_tag(Self, DetectedTag(u), text_page(tagmem[u].block))
          IN  /\ Becomes(c)
              /\ outcome' = Did("readback", tagmem[u].page, c)
    /\ UNCHANGED <<ctl, total_pages, is_running, lpc, codecVars, detectVars, watchVars,
                   multiVars, sessVars, raceVars, ctorVars, writerVars>>

\* the writer's batch for a document of total_pages pages, then the reader
\* with no mapping stored, Idle
InitWriter ==
    /\ CodecIdle
    /\ DetectIdle
    /\ WatchIdle
    /\ MultiIdle
    /\ SessIdle
    /\ RaceIdle
    /\ CtorIdle
    /\ WriterIdle
    /\ ctl = "pn532"
    /\ total_pages \in SessionPages
    /\ is_running = FALSE
    /\ page_mappings = <<>>
    /\ reverse_mappings = EmptyMap
    /\ learning_mode = FALSE
    /\ current_learning_page = 1
    /\ last_tag_id = NoTag
    /\ elapsed = TagCooldown
    /\ file = NoFile
    /\ lpc = "new"
    /\ outcome = [op |-> "init", page |-> 0, emitted |-> 0, raised |-> FALSE,
                  changed |-> FALSE]

NextWriter ==
    \/ BatchBegin
    \/ WritePage
    \/ AnswerRetry
    \/ RewritePage
    \/ ReadBack
    \/ Tick

SpecWriter == InitWriter /\ [][NextWriter]_vars

\* main() of pn532_controller.py or multi_tag_handler.py has parsed its
\* command line: a port or none, a UDP port, a number of pages
InitConstruct ==
    /\ CodecIdle
    /\ DetectIdle
    /\ WatchIdle
    /\ MultiIdle
    /\ SessIdle
    /\ RaceIdle
    /\ WriterIdle
    /\ ctl \in {"pn532", "multi"}
    /\ args \in [port : {"None", "/dev/ttyUSB0", "COM3"}, baudrate : {115200},
                 udp_port : 8888..8892, total_pages : (1..MaxPages) \cup {10}]
    /\ conf = [port |-> "None", baudrate |-> 115200, udp_port |-> 8890]
    /\ total_pages = 10
    /\ is_running = FALSE
    /\ page_mappings = <<>>
    /\ reverse_mappings = EmptyMap
    /\ learning_mode = FALSE
    /\ current_learning_page = 1
    /\ last_tag_id = NoTag
    /\ elapsed = TagCooldown
    /\ file = NoFile
    /\ lpc = "main"
    /\ outcome = [op |-> "init", page |-> 0, emitted |-> 0, raised |-> FALSE,
                  changed |-> FALSE]

NextConstruct == Construct

SpecConstruct == InitConstruct /\ [][NextConstruct]_vars

\* one session of any of the three controllers, thread by thread
InitSession ==
    /\ InitStore \/ InitMulti
    /\ total_pages = MaxPages

NextSession ==
    \/ SessionStart
    \/ LoopTest
    \/ CycleBegin
    \/ PN532CycleEnd
    \/ ConnectReturns
    \/ Interrupt
    \/ ChannelDies
    \/ StopMonitoring
    \/ Cleanup
    \/ ConsoleCommand
    \/ Tick

SpecSession == InitSession /\ [][NextSession]_vars

\* the session with its main thread scheduled: every step of the loop and of
\* the shutdown that depends on the program alone is taken in the end (the
\* serial reads of detect_tag time out after a second).  When clf.connect
\* returns depends on a tag being presented; the console, the interrupt and
\* the reader are the operator's.
SpecSessionFair ==
    /\ SpecSession
    /\ WF_vars(LoopTest)
    /\ WF_vars(CycleBegin)
    /\ WF_vars(PN532CycleEnd)
    /\ WF_vars(StopMonitoring)
    /\ WF_vars(Cleanup)

-----------------------------------------------------------------------------
(* Frame codec properties *)

\* the frame layout of the wire format: 00 00 FF LEN LCS TFI <payload> DCS 00
HasMagic(w) == Len(w) >= 3 /\ SubSeq(w, 1, 3) = <<0, 0, 255>>

\* LEN + LCS = 0 mod 256
LenChecksumOK(w) == Len(w) >= 5 /\ (w[4] + w[5]) % 256 = 0

\* direction byte + sum(payload) + DCS = 0 mod 256, DCS being the byte after
\* the LEN bytes that follow LCS
DataChecksumOK(w) ==
    /\ Len(w) >= 5
    /\ Len(w) >= w[4] + 6
    /\ (Sum(SubSeq(w, 6, 5 + w[4])) + w[6 + w[4]]) % 256 = 0

ValidFrame(w) == HasMagic(w) /\ LenChecksumOK(w) /\ DataChecksumOK(w)

\* C1: once the bytes build_command produced for a payload have been read back
\* by read_response (no read error), the result is exactly that payload.
C1_RoundTrip ==
    (cpc = "done" /\ mode = "loop" /\ rerr = "none") => response = Some(data)

\* C2: read_response returns a payload only for bytes whose length checksum
\* and payload checksum both verify.
C2_BothChecksums ==
    (cpc = "done" /\ response.tag = "list") =>
        (LenChecksumOK(wire) /\ DataChecksumOK(wire))

\* C3: for a frame with one byte changed, read_response returns a payload
\* only when the changed bytes form another valid frame.
C3_CorruptionRejected ==
    (cpc = "done" /\ mode = "flip" /\ response.tag = "list") => ValidFrame(wire)

\* C4: the frame built for a payload is 00 00 FF LEN LCS D4 <payload> DCS 00
\* with LEN = len(payload) + 1, LCS and DCS bytes, LEN + LCS = 0 mod 256 and
\* 0xD4 + sum(payload) + DCS = 0 mod 256.
C4_FrameLayout ==
    (data # <<>> /\ cpc \in {"built", "delivered", "done"}) =>
        LET n == Len(data) IN
        /\ Len(frame) = n + 8
        /\ SubSeq(frame, 1, 3) = <<0, 0, 255>>
        /\ frame[4] = n + 1
        /\ frame[5] \in 0..255 /\ (frame[4] + frame[5]) % 256 = 0
        /\ frame[6] = 212
        /\ SubSeq(frame, 7, n + 6) = data
        /\ frame[n + 7] \in 0..255 /\ (212 + Sum(data) + frame[n + 7]) % 256 = 0
        /\ frame[n + 8] = 0

\* a frame has been built whose payload sum overflows a byte
C4_Witness == cpc = "built" /\ Len(data) >= 2 /\ 212 + Sum(data) > 256

\* the byte sequences of the wire format that read_response has to refuse:
\* a short header, a wrong magic header, a zero length byte, fewer bytes than
\* LEN declares (LEN bytes, DCS and postamble after the five header bytes),
\* a wrong payload checksum
Malformed(w) ==
    \/ Len(w) < 6
    \/ ~HasMagic(w)
    \/ w[4] = 0
    \/ Len(w) < w[4] + 7
    \/ ~DataChecksumOK(w)

\* C5: read_response never raises; for a short header, a wrong magic header,
\* a zero length byte, fewer bytes than declared, a wrong trailing checksum
\* or a read error it returns None; and it leaves the controller state alone.
C5_NeverRaises ==
    /\ [](cpc = "done" =>
            /\ response.tag \in {"None", "list"}
            /\ (Malformed(wire) \/ rerr # "none") => response = None)
    /\ [][(cpc = "delivered" /\ cpc' = "done") => UNCHANGED storeVars]_vars

-----------------------------------------------------------------------------
(* Multi-tag detector properties *)

\* number of response bytes before record j: the count byte and records 1..j-1
RECURSIVE BytesBefore(_, _)
BytesBefore(recs, j) ==
    IF j = 1 THEN 1 ELSE BytesBefore(recs, j - 1) + 5 + Len(recs[j - 1].uid)

\* the response ends inside record j
EndsInsideRecord(j) ==
    /\ dresp.tag = "list"
    /\ BytesBefore(drecs, j) < Len(dresp.val)
    /\ Len(dresp.val) < BytesBefore(drecs, j) + 5 + Len(drecs[j].uid)

\* C6: for a response that ends inside record j, detect_multiple_tags
\* returns exactly records 1..j-1, in order, with their full UIDs.
C6_PartialRecords ==
    (dpc = "done" /\ ~dwerr) =>
        \A j \in 1..Len(drecs) :
            EndsInsideRecord(j) =>
                /\ Len(tags) = j - 1
                /\ \A i \in 1..(j - 1) :
                      /\ tags[i].uid = drecs[i].uid
                      /\ Len(tags[i].uid_hex) = 2 * Len(drecs[i].uid)
                      /\ tags[i].tag_number = drecs[i].tag_number
                      /\ tags[i].sens_res = drecs[i].sens_res
                      /\ tags[i].sel_res = drecs[i].sel_res

\* a response of two records that ends inside the uid of the second
C6_Witness ==
    /\ dpc = "done" /\ ~dwerr /\ Len(drecs) = 2
    /\ EndsInsideRecord(2)
    /\ Len(dresp.val) > BytesBefore(drecs, 2) + 5
    /\ Len(tags) = 1

-----------------------------------------------------------------------------
(* Mapping store properties *)

\* resolve(uid): the reverse lookup, 0 for an unmapped uid
resolve(u) == IF u \in DOMAIN reverse_mappings THEN reverse_mappings[u] ELSE 0

\* every forward entry p -> u has resolve(u) = p
ForwardResolves ==
    \A i \in 1..Len(page_mappings) :
        resolve(page_mappings[i][2]) = page_mappings[i][1]

\* C7: after any adds and removes, every page p mapped to uid u has
\* resolve(u) = p.
C7_ForwardToReverse == lpc = "loop" => ForwardResolves

\* C8: no two pages share a uid, and every uid of the reverse index is the
\* uid the forward index holds for the page it resolves to.
C8_Bijection ==
    /\ \A i, j \in 1..Len(page_mappings) :
          i # j => page_mappings[i][2] # page_mappings[j][2]
    /\ \A u \in DOMAIN reverse_mappings :
          /\ DictHas(page_mappings, reverse_mappings[u])
          /\ DictGet(page_mappings, reverse_mappings[u]) = u

\* C9: after save() and load() the forward index has the saved integer page
\* keys and uids, and every page p mapped to uid u has resolve(u) = p.
C9_SaveLoadRoundTrip ==
    (outcome.op = "start" /\ ctl = "pagenav" /\ file.exists) =>
        /\ Len(page_mappings) = Len(file.page_mappings)
        /\ \A i \in 1..Len(page_mappings) :
              /\ page_mappings[i][1] \in Int
              /\ str(page_mappings[i][1]) = file.page_mappings[i][1]
              /\ page_mappings[i][2] = file.page_mappings[i][2]
        /\ ForwardResolves

\* C10: add(page, uid) with page outside 1..total_pages changes neither
\* index nor the stored file.
C10_OutOfRangeRejected ==
    (outcome.op = "add" /\ ~(1 <= outcome.page /\ outcome.page <= total_pages)) =>
        ~outcome.changed

\* an add for page total_pages + 1 came back while mappings exist
C10_Witness ==
    /\ outcome.op = "add" /\ outcome.page = total_pages + 1
    /\ page_mappings # <<>> /\ file.exists

\* C11: every page number of the forward index is in 1..total_pages, in every
\* state of a session, the state right after load_mappings of a file stored
\* under another total_pages included.
C11_PagesInRange ==
    lpc = "loop" =>
        \A i \in 1..Len(page_mappings) :
            /\ page_mappings[i][1] \in Int
            /\ 1 <= page_mappings[i][1] /\ page_mappings[i][1] <= total_pages

\* C12: when an accepted add, a remove of a mapped page, or a detection that
\* learned a mapping has returned, the stored file's page_mappings are the
\* forward index (integer keys written as strings), for either controller.
C12_PersistedSynchronously ==
    (\/ (outcome.op = "add" /\ 1 <= outcome.page /\ outcome.page <= total_pages)
     \/ (outcome.op \in {"remove", "tag"} /\ outcome.changed)) =>
        /\ file.exists
        /\ file.page_mappings =
               [i \in 1..Len(page_mappings) |->
                   <<str(page_mappings[i][1]), page_mappings[i][2]>>]

\* C13: a remove of a mapped page leaves the forward index without the page
\* and the reverse index without the page's former uid, every other entry as
\* it was, and does not raise; a remove of an unmapped page changes nothing.
C13_RemoveBothDirections ==
    [][(outcome'.op = "remove" /\ elapsed' = elapsed) =>
          LET p == outcome'.page IN
          IF DictHas(page_mappings, p)
          THEN LET u == DictGet(page_mappings, p) IN
               /\ ~outcome'.raised
               /\ page_mappings' = DictDel(page_mappings, p)
               /\ u \notin DOMAIN reverse_mappings'
               /\ \A v \in (DOMAIN reverse_mappings) \ {u} :
                     v \in DOMAIN reverse_mappings' /\ reverse_mappings'[v] = reverse_mappings[v]
               /\ DOMAIN reverse_mappings' \subseteq DOMAIN reverse_mappings
          ELSE UNCHANGED <<page_mappings, reverse_mappings, file>>]_vars

\* C14: of two detections of one mapped uid less than the cooldown apart at
\* most one sends an event, whatever was detected in between; a detection of
\* a mapped uid at least the cooldown after the last event for it sends one.
C14_Debounce ==
    /\ (seen.mapped /\ seen.emitted # 0) => seen.gap >= TagCooldown
    /\ (seen.mapped /\ seen.gap >= TagCooldown) => seen.emitted # 0

\* the detections fed to learning are of pairwise distinct tags
DistinctFed == \A i, j \in 1..Len(fed) : i # j => fed[i] # fed[j]

\* C15: when learning has been fed total_pages detections of distinct tags
\* t1..tN, the forward index is exactly {1: t1, ..., N: tN} and learning has
\* ended; while it has been fed fewer, learning is still on.
C15_LearningCompletes ==
    (outcome.op = "tag" /\ fed # <<>> /\ DistinctFed) =>
        /\ Len(fed) <= total_pages
        /\ Len(fed) < total_pages => learning_mode
        /\ Len(fed) = total_pages =>
              /\ ~learning_mode
              /\ Len(page_mappings) = total_pages
              /\ \A i \in 1..total_pages :
                    DictHas(page_mappings, i) /\ DictGet(page_mappings, i) = fed[i]

-----------------------------------------------------------------------------
(* Multi-tag handler properties *)

\* the step is a call of process_multiple_tags
PollStep == outcome'.op = "tag" /\ elapsed' <= elapsed /\ strategy' = strategy

\* C19: under strategy closest the winner of a non-empty list is one tag of
\* the list and no tag of the list has a larger sens_res.
C19_Closest ==
    [][(PollStep /\ strategy = "closest") =>
          /\ polled' # <<>>
          /\ \E i \in 1..Len(polled') : winner' = polled'[i]
          /\ \A j \in 1..Len(polled') : polled'[j].sens_res <= winner'.sens_res]_vars

\* closest chose the second of two tags, the one with the larger sens_res
C19_Witness ==
    /\ outcome.op = "tag" /\ strategy = "closest" /\ Len(polled) = 2
    /\ polled[1].sens_res < polled[2].sens_res
    /\ winner = polled[2]

\* C20: under strategy specific, of two tags the winner is a mapped tag with
\* the smallest mapped page when one of them is mapped, and a tag with the
\* largest sens_res when none is.
C20_Specific ==
    [][(PollStep /\ strategy = "specific" /\ Len(polled') = 2) =>
          LET mapped == {i \in 1..2 : polled'[i].uid_hex \in DOMAIN reverse_mappings}
              page(i) == reverse_mappings[polled'[i].uid_hex]
          IN  IF mapped # {}
              THEN \E i \in mapped :
                      /\ winner' = polled'[i]
                      /\ \A j \in mapped : page(i) <= page(j)
              ELSE /\ \E i \in 1..2 : winner' = polled'[i]
                   /\ \A j \in 1..2 : polled'[j].sens_res <= winner'.sens_res]_vars

\* specific chose the mapped second tag over an unmapped first tag with the
\* larger sens_res
C20_Witness ==
    /\ outcome.op = "tag" /\ strategy = "specific" /\ Len(polled) = 2
    /\ polled[1].uid_hex \notin DOMAIN reverse_mappings
    /\ polled[2].uid_hex \in DOMAIN reverse_mappings
    /\ polled[1].sens_res > polled[2].sens_res
    /\ winner = polled[2]

\* the detection of the step passed the debounce test
Accepted == last_tag_id' # last_tag_id \/ elapsed' < elapsed

\* C16: a detection made in learning mode sends no navigation event; when it
\* is accepted it maps the current learning page to the detected uid and
\* advances the page.
C16_LearningPreempts ==
    [][(learning_mode /\ PollStep) =>
          /\ outcome'.emitted = 0
          /\ Accepted =>
                /\ DictHas(page_mappings', current_learning_page)
                /\ DictGet(page_mappings', current_learning_page) = last_tag_id'
                /\ current_learning_page' = current_learning_page + 1]_vars

\* learning took a tag that is mapped to another page, and sent nothing
C16_Witness ==
    /\ learning_mode /\ outcome.op = "tag" /\ outcome.changed /\ outcome.emitted = 0
    /\ current_learning_page = 2
    /\ Len(page_mappings) = 2
    /\ page_mappings[1][1] = 2 /\ page_mappings[1][2] = last_tag_id

\* the step is a learn command
LearnStep == outcome'.op = "learn" /\ elapsed' = elapsed /\ strategy' = strategy

\* C17: whatever the learning flag and the current learning page were, a learn
\* command leaves the controller learning at page 1, and the detection that
\* is accepted next maps page 1 to the detected uid.
C17_LearningRestartsAtPageOne ==
    [][/\ LearnStep => learning_mode' /\ current_learning_page' = 1
       /\ (learning_mode /\ current_learning_page = 1 /\ PollStep /\ Accepted) =>
             /\ DictHas(page_mappings', 1)
             /\ DictGet(page_mappings', 1) = last_tag_id'
             /\ last_tag_id' \in DOMAIN reverse_mappings'
             /\ reverse_mappings'[last_tag_id'] = 1]_vars

\* pages 1 and 2 were mapped to two tags, learning was entered again, and the
\* tag of page 2 was taken for page 1
C17_Witness ==
    /\ learning_mode /\ current_learning_page = 2
    /\ outcome.op = "tag" /\ outcome.changed
    /\ page_mappings = <<(<<1, last_tag_id>>), (<<2, last_tag_id>>)>>
    /\ \E u \in DOMAIN reverse_mappings : u # last_tag_id /\ reverse_mappings[u] = 1

\* C18: outside learning, an accepted detection of a mapped uid sends one
\* goto_page event carrying the page the uid resolves to; an accepted detection
\* of an unmapped uid whose content cannot be read sends nothing and leaves
\* both indices as they were.
C18_IdleDispatch ==
    [][(~learning_mode /\ PollStep /\ Accepted) =>
          /\ last_tag_id' \in DOMAIN reverse_mappings =>
                outcome'.emitted = reverse_mappings[last_tag_id']
          /\ (last_tag_id' \notin DOMAIN reverse_mappings /\ outcome'.page = 0) =>
                /\ outcome'.emitted = 0
                /\ UNCHANGED <<page_mappings, reverse_mappings>>]_vars

\* C21: under strategy newest the winner of a non-empty list is a tag of the
\* list with the largest detection_time, and of the tags with that time the
\* one detected first.
C21_Newest ==
    [][(PollStep /\ strategy = "newest") =>
          /\ polled' # <<>>
          /\ \E i \in 1..Len(polled') :
                /\ winner' = polled'[i]
                /\ \A j \in 1..Len(polled') :
                      polled'[j].detection_time <= polled'[i].detection_time
                /\ \A j \in 1..(i - 1) :
                      polled'[j].detection_time < polled'[i].detection_time]_vars

\* newest chose the first of two tags whose detection times are equal
C21_Witness ==
    /\ outcome.op = "tag" /\ strategy = "newest" /\ Len(polled) = 2
    /\ polled[1].detection_time = polled[2].detection_time
    /\ winner = polled[1]

C23_LoopAppliesIntents == wrote \subseteq {"loop"}

\* C24: once is_running is cleared the loop begins at most one more detection
\* cycle, and it leaves the loop whether or not a tag is presented again.
C24_Cancellation ==
    /\ [](late <= 1)
    /\ (lpc \in {"loop", "body", "xchg"} /\ ~is_running)
          ~> (lpc \in {"stop", "cleanup", "exited"})

\* C25: when a session that had started monitoring has shut down, the
\* mappings were flushed, and every flush came before every release of the
\* channel.
C25_FlushBeforeRelease ==
    (lpc = "exited" /\ kpc # "none") =>
        /\ \E i \in 1..Len(shut) : shut[i] = "flush"
        /\ \A i, j \in 1..Len(shut) :
              (shut[i] = "flush" /\ shut[j] = "release") => i < j

\* C26: a cycle whose exchange fails on a dead channel takes the loop to its
\* shutdown, and a session in which an exchange failed ends with a flush of
\* the mappings.
C26_DeadChannelIsFatal ==
    [][/\ (lpc \in {"body", "xchg"} /\ chan = "dead" /\ lpc' # lpc) => lpc' = "stop"
       /\ (lpc' = "exited" /\ \E i \in 1..Len(shut') : shut'[i] = "fail")
             => \E j \in 1..Len(shut') : shut'[j] = "flush"]_vars

\* C30: detect_tag returns None for a response with zero targets, with fewer
\* than 7 bytes, or with fewer bytes than 6 + the declared uid length; a record
\* it returns has a uid of the declared length and a uid_hex of twice as many
\* digits.
C30_DetectSingle ==
    dpc = "done" =>
        /\ (\/ dresp.tag = "None"
            \/ Len(dresp.val) < 7
            \/ dresp.val[1] = 0
            \/ Len(dresp.val) < 6 + dresp.val[6]) => tags = <<>>
        /\ tags # <<>> =>
              /\ Len(tags[1].uid) = dresp.val[6]
              /\ Len(tags[1].uid_hex) = 2 * dresp.val[6]

\* C27: a cycle whose response is missing, has a wrong header, is cut short
\* or fails its payload checksum sends no event and leaves the mappings, the
\* learning state and the last-seen uid and time as they were.
C27_FailedExchangeContained ==
    [][(cpc = "done" /\ cpc' = "polled" /\ Malformed(wire)) =>
          /\ outcome'.emitted = 0
          /\ UNCHANGED <<page_mappings, reverse_mappings, learning_mode,
                         current_learning_page, last_tag_id, elapsed>>]_vars

\* C28: connect returns success only when the firmware-version exchange and
\* the operating-mode exchange both got a response.
C28_ConnectNeedsBothAnswers ==
    [][(lpc = "new" /\ lpc' # "new" /\ is_running') =>
          (response # None /\ response' # None)]_vars

\* C29: a detection calls sendto at most once, and only when it is accepted;
\* when sendto raises no event goes out, no exception reaches the loop, the
\* loop goes on, and the mappings, the learning state and the debounce state
\* are those a successful send leaves.
C29_FireAndForget ==
    [][PollStep =>
          LET sent == IF ctl = "pagenav"
                      THEN PageNav_process_nfc_tag(Self, last_tag_id', outcome'.page)
                      ELSE PN532_process_tag(Self, DetectedTag(last_tag_id'), outcome'.page)
          IN  /\ outcome'.attempts <= 1
              /\ (outcome'.attempts = 1) => Accepted
              /\ ~outcome'.raised /\ is_running' /\ lpc' = "loop"
              /\ (outcome'.sock = "fail") => (outcome'.emitted = 0)
              /\ <<page_mappings', reverse_mappings', learning_mode',
                   current_learning_page', last_tag_id', elapsed', file'>>
                     = <<sent.pm, sent.rev, sent.lm, sent.clp, sent.last_id, sent.elapsed,
                         sent.file>>]_vars

\* a send that failed: the detection of a mapped tag was accepted, sendto
\* was called once and raised, and the loop runs
C29_Witness ==
    /\ outcome.op = "tag" /\ outcome.sock = "fail" /\ outcome.attempts = 1
    /\ outcome.emitted = 0 /\ ~outcome.raised
    /\ last_tag_id \in DOMAIN reverse_mappings /\ elapsed = 0
    /\ is_running /\ lpc = "loop"

\* C31: for a response holding its declared count k (0..2) of complete
\* records, detect_multiple_tags returns k records in response order, each
\* with the number, sens-res, sel-res and uid of its own record.
C31_OffsetAdvances ==
    (dpc = "done" /\ ~dwerr /\ dresp = Some(<<Len(drecs)>> \o RecordsBytes(drecs))) =>
        /\ Len(tags) = Len(drecs)
        /\ \A i \in 1..Len(drecs) :
              /\ tags[i].tag_number = drecs[i].tag_number
              /\ tags[i].sens_res = drecs[i].sens_res
              /\ tags[i].sel_res = drecs[i].sel_res
              /\ tags[i].uid = drecs[i].uid
              /\ tags[i].uid_hex = uid_hex_of(drecs[i].uid)

\* two complete records whose uids differ in length and in content came back
C31_Witness ==
    /\ dpc = "done" /\ ~dwerr /\ Len(drecs) = 2
    /\ dresp = Some(<<2>> \o RecordsBytes(drecs))
    /\ Len(drecs[1].uid) > 1 /\ Len(drecs[2].uid) = 1
    /\ Len(tags) = 2 /\ tags[2].uid = drecs[2].uid /\ tags[1].uid # tags[2].uid

\* a dict as the set of its items
Items(d) == {d[i] : i \in 1..Len(d)}

\* a console command and a detection that began together have both returned
Raced ==
    /\ kop.pc = "done" /\ lop.pc = "done"
    /\ hist.k.op # "none" /\ hist.l.op # "none"

\* C32: when an add_mapping or remove_mapping command and a detection that
\* began together have both returned, the forward and reverse indices are
\* those of the command followed by the detection or of the detection
\* followed by the command.
C32_MappingWritesSerialize ==
    (Raced /\ hist.k.op \in {"add", "remove"}) =>
        LET kl == LoopCall(ConsoleCall(hist.c, hist.k), hist.l)
            lk == ConsoleCall(LoopCall(hist.c, hist.l), hist.k)
        IN  <<Items(page_mappings), reverse_mappings>>
                \in {<<Items(kl.pm), kl.rev>>, <<Items(lk.pm), lk.rev>>}

\* C33: when a learn command and a detection that began together have both
\* returned, learning_mode and current_learning_page are those of the command
\* followed by the detection or of the detection followed by the command;
\* and no state with both threads at rest has learning_mode set and
\* current_learning_page above total_pages.
C33_LearnNotLost ==
    /\ (Raced /\ hist.k.op = "learn") =>
          LET kl == LoopCall(ConsoleCall(hist.c, hist.k), hist.l)
              lk == ConsoleCall(LoopCall(hist.c, hist.l), hist.k)
          IN  <<learning_mode, current_learning_page>>
                  \in {<<kl.lm, kl.clp>>, <<lk.lm, lk.clp>>}
    /\ (kop.pc = "done" /\ lop.pc = "done") =>
          ~(learning_mode /\ current_learning_page > total_pages)

\* C34: when a learning run has ended, the pages it wrote map to pairwise
\* distinct uids, whatever detections it was fed (the same tag left on the
\* reader beyond the cooldown included).
C34_LearnedTagsDistinct ==
    (outcome.op = "tag" /\ fed # <<>> /\ ~learning_mode) =>
        \A i, j \in 1..Len(fed) :
            (i # j /\ DictHas(page_mappings, i) /\ DictHas(page_mappings, j)) =>
                DictGet(page_mappings, i) # DictGet(page_mappings, j)

\* C35: every navigation event a detection sends carries a page in
\* 1..total_pages of the running session.
C35_EmittedPageInRange ==
    (lpc = "loop" /\ outcome.op = "tag" /\ outcome.emitted # 0) =>
        (1 <= outcome.emitted /\ outcome.emitted <= total_pages)

\* whether load_mappings fails on the file: it is missing, it is not JSON, or
\* one of its page keys is not an integer
LoadFails ==
    \/ ~file.exists
    \/ file = Unparsable
    \/ \E i \in 1..Len(file.page_mappings) : ~isdigits(file.page_mappings[i][1])

\* C36: a load that fails leaves the forward and the reverse index as they
\* were before the call.
C36_FailedLoadChangesNothing ==
    [][(lpc = "new" /\ lpc' = "loop" /\ LoadFails) =>
          UNCHANGED <<page_mappings, reverse_mappings>>]_vars

\* C37: a MultiTagHandler constructed with udp_port and total_pages runs
\* with that total_pages and sends its events to that udp_port.
C37_ConstructedAsAsked ==
    (ctl = "multi" /\ lpc = "new") =>
        (total_pages = args.total_pages /\ conf.udp_port = args.udp_port)

\* C38: when connect() succeeds, the multi-tag controller's start_monitoring
\* sets the running flag and reaches its poll loop.
C38_MultiReachesLoop ==
    [][(lpc = "new" /\ ctl = "multi" /\ chan' = "open") =>
           (is_running' /\ lpc' = "loop")]_vars

\* C39: the block write_page_tag(p, total_pages) wrote is parsed by the
\* reader's parse_page_from_data as page p, and a written tag detected
\* unmapped in Idle is learned as page p.
C39_WrittenTagReadable ==
    /\ \A u \in DOMAIN tagmem :
          parse_page_from_data(Self, tagmem[u].block) = tagmem[u].page
    /\ outcome.op = "readback" =>
          /\ last_tag_id \in DOMAIN reverse_mappings
          /\ reverse_mappings[last_tag_id] = tagmem[last_tag_id].page

\* C40: write_tag_data issues exactly one exchange per call and returns false
\* on a nonzero status or no response; batch writing attempts a page at most
\* twice, the second time only after the answer 'y', and on completion
\* success_count plus the number of failed pages is total_pages.
C40_WriteFailureReported ==
    /\ wcall.called => wcall.exchanges = 1
    /\ (wcall.called /\ (wcall.status # 0 \/ wcall.line = <<>>)) => ~wcall.ret
    /\ \A p \in DOMAIN tries : tries[p] <= 2 /\ (tries[p] = 2 => asked[p] = "y")
    /\ wpc = "done" => success_count + Len(failed_pages) = total_pages

C40_Witness ==
    /\ wpc = "done"
    /\ success_count > 0
    /\ failed_pages # <<>>
    /\ tries[wpage] = 2
    /\ wcall.called /\ wcall.status # 0

====
